---- MODULE Spec2Model ----
(***************************************************************************)
(* Model of the action-dispatch framework of 0xgasless/agentkit:           *)
(*   - the Agentkit class in its two source variants                       *)
(*       "apikey"   : agentkit-core/src/agentkit.ts (configureAgentkit,    *)
(*                    revalidation on every call, try/catch around func)   *)
(*       "extended" : unnamed/part_008 (ExtendedAgentkitAction dispatch)   *)
(*   - the internal auth service (services/authService.ts)                 *)
(*   - the server-wallet actions select_server_wallet / get_address /      *)
(*     get_balance                                                         *)
(* Strings are sequences of tokens, so that "contains", "begins with" and  *)
(* "returned verbatim" are checkable.  `${error}` of a JS Error object is  *)
(* "Error: " followed by its message (ErrorToString).                      *)
(***************************************************************************)
EXTENDS Integers, Sequences, FiniteSets, TLC

VARIABLES
  variant,          \* which source variant of class Agentkit is built
  TESTNET_SUPPORT,  \* feature flag read once at module load
  validApiKeys,     \* authService.ts: the mock database of API keys
  agentkit,         \* the instance under observation (fields of class Agentkit)
  calls,            \* number of run/getAddress/getChainId calls made on the instance
  revalidations,    \* number of verifyApiKey invocations those calls made
  clients,          \* number of smart-account clients built so far (handle ids)
  failedBefore,     \* some earlier call on the instance failed its revalidation
  last,             \* the most recent operation: inputs, outcome, what it invoked,
                    \* and (before) the instance as it was when the call began
  server,           \* server-wallet mode instance: apiKey, serverUrl, selected index
  wallets,          \* the wallet list the remote wallet service currently returns
  slast,            \* the most recent server-wallet action: its result, the index
                    \* selected before it, the wallet list as it was (listed), and
                    \* a summary of the action executed before it (previous)
  alast,            \* the most recent call of an action's function: its name, its
                    \* inputs (arguments and what the collaborators answered), its
                    \* outcome and the requests it submitted, in order
  inflight          \* the run calls in flight on the instance, one per caller:
                    \* where the call stands between its await points, what
                    \* its verification answered, the handle its revalidation
                    \* built and the handle its action was executed with

vars == <<variant, TESTNET_SUPPORT, validApiKeys, agentkit, calls, revalidations,
          clients, failedBefore, last, server, wallets, slast, alast, inflight>>

coreVars == <<variant, TESTNET_SUPPORT, validApiKeys, agentkit, calls, revalidations,
              clients, failedBefore, last>>

serverVars == <<server, wallets, slast>>

actionVars == <<alast, inflight>>

-----------------------------------------------------------------------------
(* Bounds *)

MaxCalls == 3

MaxWalletIndex == 2

-----------------------------------------------------------------------------
(* Values *)

undefined == [undefined |-> TRUE]

undefinedStr == "<undefined>"

Falsy(s) == s \in {"", undefinedStr}

Contains(msg, tok) == \E i \in 1..Len(msg) : msg[i] = tok

ErrorToString(message) == <<"Error: ">> \o message

AVAX_RPC == "https://api.avax.network/ext/bc/C/rpc"

PK_TEST == "0x1234567890abcdef1234567890abcdef1234567890abcdef1234567890abcdef"

PK_DEMO == "0xabcdef1234567890abcdef1234567890abcdef1234567890abcdef1234567890"

PK_CUSTOM == "0x9999999999999999999999999999999999999999999999999999999999999999"

PK_MALFORMED == "0x1234..."

GeneratedKeys == {"0xgenerated-1", "0xgenerated-2"}

ValidPrivateKey(pk) == pk \in {PK_TEST, PK_DEMO, PK_CUSTOM} \cup GeneratedKeys

ApiKeyNames == {"test-api-key-123", "demo-key-456", "custom-test-key"}

(* constants.ts / agentkit.ts: the supported-chain table *)
mainnetChains == {8453, 250, 1284, 1088, 43114, 56}

getSupportedChains(testnet) == IF testnet THEN mainnetChains \cup {11155111} ELSE mainnetChains

supportedChains == getSupportedChains(TESTNET_SUPPORT)

-----------------------------------------------------------------------------
(* services/authService.ts *)

privateKeyToAddress(pk) == <<"address-of", pk>>

generateWalletForApiKey(apiKey, generatedKey) ==
  [privateKey |-> generatedKey, address |-> privateKeyToAddress(generatedKey),
   rpcUrl |-> AVAX_RPC, chainId |-> 43114]

(* Mutant: the wallet generated for an unknown key is not stored *)
verifyApiKeyWithoutCache(apiKey, db, generatedKey) ==
  IF Falsy(apiKey)
  THEN [success |-> FALSE, data |-> undefined, error |-> <<"API key is required">>, db |-> db]
  ELSE LET respond(walletData) ==
             IF ValidPrivateKey(walletData.privateKey)
             THEN [success |-> TRUE,
                   data |-> [privateKey |-> walletData.privateKey,
                             address |-> privateKeyToAddress(walletData.privateKey),
                             rpcUrl |-> walletData.rpcUrl,
                             chainId |-> walletData.chainId],
                   error |-> <<>>, db |-> db]
             ELSE [success |-> FALSE, data |-> undefined,
                   error |-> <<"Internal server error">>, db |-> db]
       IN IF db[apiKey] # undefined
          THEN respond(db[apiKey])
          ELSE respond(generateWalletForApiKey(apiKey, generatedKey))

(* verifyApiKey: an unknown key gets a generated wallet, which is stored;     *)
(* privateKeyToAccount throwing on a malformed key is caught and reported as  *)
(* "Internal server error".  db is the value of validApiKeys afterwards.      *)
verifyApiKey(apiKey, db, generatedKey) ==
  IF Falsy(apiKey)
  THEN [success |-> FALSE, data |-> undefined, error |-> <<"API key is required">>, db |-> db]
  ELSE LET respond(walletData, db2) ==
             IF ValidPrivateKey(walletData.privateKey)
             THEN [success |-> TRUE,
                   data |-> [privateKey |-> walletData.privateKey,
                             address |-> privateKeyToAddress(walletData.privateKey),
                             rpcUrl |-> walletData.rpcUrl,
                             chainId |-> walletData.chainId],
                   error |-> <<>>, db |-> db2]
             ELSE [success |-> FALSE, data |-> undefined,
                   error |-> <<"Internal server error">>, db |-> db2]
           store(walletData) == respond(walletData, [db EXCEPT ![apiKey] = walletData])
           generate(generatedWallet) ==
             store([privateKey |-> generatedWallet.privateKey,
                    rpcUrl |-> generatedWallet.rpcUrl,
                    chainId |-> generatedWallet.chainId])
       IN IF db[apiKey] # undefined
          THEN respond(db[apiKey], db)
          ELSE generate(generateWalletForApiKey(apiKey, generatedKey))

addApiKey(db, apiKey, walletData) == [db EXCEPT ![apiKey] = walletData]

removeApiKey(db, apiKey) == IF db[apiKey] # undefined THEN [db EXCEPT ![apiKey] = undefined] ELSE db

-----------------------------------------------------------------------------
(* External SDK: @0xgasless/smart-account createSmartAccountClient.  Whether *)
(* it resolves or rejects is the collaborator's choice (sdk); the handle it  *)
(* returns is bound to the chain id, signer and paymaster key it was given.   *)

createSmartAccountClient(cfg, sdk, id) ==
  IF sdk = "ok"
  THEN [threw |-> FALSE, error |-> <<>>,
        client |-> [privateKey |-> cfg.signer, chainId |-> cfg.chainId,
                    paymasterKey |-> cfg.paymasterKey, id |-> id]]
  ELSE [threw |-> TRUE, error |-> <<"smart account client creation failed">>,
        client |-> undefined]

-----------------------------------------------------------------------------
(* class Agentkit *)

NewAgentkit == [constructed |-> TRUE, apiKey |-> undefinedStr,
                smartAccount |-> undefined, walletClient |-> undefined]

NoAgentkit == [constructed |-> FALSE, apiKey |-> undefinedStr,
               smartAccount |-> undefined, walletClient |-> undefined]

(* Mutant: a constructor that accepts every chain ID *)
ConstructorWithoutChainCheck(config) ==
  [threw |-> FALSE, error |-> <<>>, self |-> NewAgentkit]

(* constructor: throws for a chain ID that is no key of supportedChains *)
Constructor(config) ==
  IF config.chainID \notin supportedChains
  THEN [threw |-> TRUE,
        error |-> <<"Chain ID ", ToString(config.chainID), " is not supported">>,
        self |-> NoAgentkit]
  ELSE [threw |-> FALSE, error |-> <<>>, self |-> NewAgentkit]

(* verifyApiKeyInternal: rethrows a failed verification, wrapped twice (the  *)
(* throw inside the try block is caught by the method's own catch)           *)
verifyApiKeyInternal(apiKey, db, generatedKey) ==
  LET check(result) ==
        IF ~result.success \/ result.data = undefined
        THEN [threw |-> TRUE,
              error |-> <<"API key verification failed: ">> \o
                        ErrorToString(IF result.error # <<>> THEN result.error
                                      ELSE <<"API key verification failed">>),
              data |-> undefined, db |-> result.db]
        ELSE [threw |-> FALSE, error |-> <<>>, data |-> result.data, db |-> result.db]
  IN check(verifyApiKey(apiKey, db, generatedKey))

(* The body shared by configureAgentkit (lines 129-152) and                   *)
(* revalidateAndReconfigure (lines 243-266): verify, derive the account,      *)
(* create the wallet client, build the smart-account client.  No check of     *)
(* walletData.chainId against supportedChains is made on this path.           *)
buildFromAuthority(apiKey, db, generatedKey, sdk, id) ==
  LET built(v, c) ==
        [threw |-> c.threw, error |-> c.error, smartAccount |-> c.client, db |-> v.db,
         verifyCalls |-> 1, signers |-> 1, clientCalls |-> 1]
      build(v) ==
        IF v.threw
        THEN [threw |-> TRUE, error |-> v.error, smartAccount |-> undefined, db |-> v.db,
              verifyCalls |-> 1, signers |-> 0, clientCalls |-> 0]
        ELSE IF ~ValidPrivateKey(v.data.privateKey)
        THEN [threw |-> TRUE, error |-> <<"invalid private key">>,
              smartAccount |-> undefined, db |-> v.db,
              verifyCalls |-> 1, signers |-> 0, clientCalls |-> 0]
        ELSE built(v, createSmartAccountClient(
                        [chainId |-> v.data.chainId, signer |-> v.data.privateKey,
                         paymasterKey |-> apiKey], sdk, id))
  IN build(verifyApiKeyInternal(apiKey, db, generatedKey))

(* Mutant: no check of the API key or of the signer material; an absent      *)
(* signer falls back to an empty one                                         *)
configureWithWalletWithoutCredentialCheck(config, sdk, id) ==
  LET configured(c) ==
        [threw |-> c.threw, error |-> c.error,
         self |-> IF c.threw THEN NoAgentkit
                  ELSE [NewAgentkit EXCEPT !.smartAccount = c.client],
         signers |-> 1, clientCalls |-> 1]
  IN configured(createSmartAccountClient(
                  [chainId |-> config.chainID, signer |-> config.privateKey,
                   paymasterKey |-> config.apiKey], sdk, id))

(* configureWithWallet (agentkit.ts 74-115, part_008 107-152).  The extended *)
(* variant also stores the wallet client.                                     *)
configureWithWallet(config, sdk, id) ==
  IF Falsy(config.apiKey)
  THEN [threw |-> TRUE, error |-> <<"API_KEY is required for smart agent configuration">>,
        self |-> NoAgentkit, signers |-> 0, clientCalls |-> 0]
  ELSE LET k == Constructor(config)
       IN IF k.threw
          THEN [threw |-> TRUE, error |-> k.error, self |-> NoAgentkit,
                signers |-> 0, clientCalls |-> 0]
          ELSE IF config.privateKey = undefinedStr /\ config.mnemonicPhrase = undefinedStr
          THEN [threw |-> TRUE,
                error |-> <<"Failed to initialize smart account: ">> \o
                          ErrorToString(<<"Either privateKey or mnemonicPhrase must be provided">>),
                self |-> NoAgentkit, signers |-> 0, clientCalls |-> 0]
          ELSE LET account == IF config.privateKey # undefinedStr THEN config.privateKey
                              ELSE config.mnemonicPhrase
                   c == createSmartAccountClient(
                          [chainId |-> config.chainID, signer |-> account,
                           paymasterKey |-> config.apiKey], sdk, id)
               IN IF c.threw
                  THEN [threw |-> TRUE,
                        error |-> <<"Failed to initialize smart account: ">> \o
                                  ErrorToString(c.error),
                        self |-> NoAgentkit, signers |-> 1, clientCalls |-> 1]
                  ELSE [threw |-> FALSE, error |-> <<>>,
                        self |-> [k.self EXCEPT
                                    !.smartAccount = c.client,
                                    !.walletClient =
                                       IF variant = "extended"
                                       THEN [account |-> account, chainId |-> config.chainID]
                                       ELSE undefined],
                        signers |-> 1, clientCalls |-> 1]

(* configureAgentkit (agentkit.ts 120-158): the constructor is given the      *)
(* default chain 43114; the chain the handle is bound to is walletData's.     *)
configureAgentkit(apiKey, db, generatedKey, sdk, id) ==
  IF Falsy(apiKey)
  THEN [threw |-> TRUE, error |-> <<"API key is required">>, self |-> NoAgentkit, db |-> db,
        verifyCalls |-> 0, signers |-> 0, clientCalls |-> 0]
  ELSE LET k == Constructor([chainID |-> 43114])
       IN IF k.threw
          THEN [threw |-> TRUE, error |-> k.error, self |-> NoAgentkit, db |-> db,
                verifyCalls |-> 0, signers |-> 0, clientCalls |-> 0]
          ELSE LET configured(b) ==
                     IF b.threw
                     THEN [threw |-> TRUE,
                           error |-> <<"Failed to configure Agentkit: ">> \o
                                     ErrorToString(b.error),
                           self |-> NoAgentkit, db |-> b.db, verifyCalls |-> b.verifyCalls,
                           signers |-> b.signers, clientCalls |-> b.clientCalls]
                     ELSE [threw |-> FALSE, error |-> <<>>,
                           self |-> [NewAgentkit EXCEPT !.apiKey = apiKey,
                                                        !.smartAccount = b.smartAccount],
                           db |-> b.db, verifyCalls |-> b.verifyCalls,
                           signers |-> b.signers, clientCalls |-> b.clientCalls]
               IN configured(buildFromAuthority(apiKey, db, generatedKey, sdk, id))

(* Mutant: a failed revalidation drops the handle the instance held *)
revalidateDroppingHandle(self, db, generatedKey, sdk, id) ==
  LET reconfigured(b) ==
        [threw |-> b.threw,
         error |-> IF b.threw THEN <<"Revalidation failed: ">> \o ErrorToString(b.error)
                   ELSE <<>>,
         self |-> [self EXCEPT !.smartAccount = b.smartAccount],
         db |-> b.db, verifyCalls |-> b.verifyCalls,
         signers |-> b.signers, clientCalls |-> b.clientCalls]
  IN reconfigured(buildFromAuthority(self.apiKey, db, generatedKey, sdk, id))

(* Mutant: the handle built for an API key is kept and reused by later calls *)
revalidateCachedHandle(self, db, generatedKey, sdk, id) ==
  LET reconfigured(b) ==
        IF b.threw
        THEN [threw |-> TRUE,
              error |-> <<"Revalidation failed: ">> \o ErrorToString(b.error),
              self |-> self, db |-> b.db, verifyCalls |-> b.verifyCalls,
              signers |-> b.signers, clientCalls |-> b.clientCalls]
        ELSE [threw |-> FALSE, error |-> <<>>,
              self |-> IF self.smartAccount # undefined
                          /\ self.smartAccount.paymasterKey = self.apiKey
                       THEN self
                       ELSE [self EXCEPT !.smartAccount = b.smartAccount],
              db |-> b.db, verifyCalls |-> b.verifyCalls,
              signers |-> b.signers, clientCalls |-> 0]
  IN reconfigured(buildFromAuthority(self.apiKey, db, generatedKey, sdk, id))

(* Mutant: a failed revalidation forgets the API key of the instance *)
revalidateClearingApiKey(self, db, generatedKey, sdk, id) ==
  LET reconfigured(b) ==
        IF b.threw
        THEN [threw |-> TRUE,
              error |-> <<"Revalidation failed: ">> \o ErrorToString(b.error),
              self |-> [self EXCEPT !.apiKey = undefinedStr], db |-> b.db,
              verifyCalls |-> b.verifyCalls,
              signers |-> b.signers, clientCalls |-> b.clientCalls]
        ELSE [threw |-> FALSE, error |-> <<>>,
              self |-> [self EXCEPT !.smartAccount = b.smartAccount],
              db |-> b.db, verifyCalls |-> b.verifyCalls,
              signers |-> b.signers, clientCalls |-> b.clientCalls]
  IN reconfigured(buildFromAuthority(self.apiKey, db, generatedKey, sdk, id))

(* revalidateAndReconfigure (agentkit.ts 238-270): this.smartAccount is       *)
(* assigned only when the new client was built; a failure leaves it alone.    *)
revalidateAndReconfigure(self, db, generatedKey, sdk, id) ==
  IF Falsy(self.apiKey)
  THEN [threw |-> TRUE, error |-> <<"No API key to revalidate">>, self |-> self, db |-> db,
        verifyCalls |-> 0, signers |-> 0, clientCalls |-> 0]
  ELSE LET reconfigured(b) ==
             IF b.threw
             THEN [threw |-> TRUE,
                   error |-> <<"Revalidation failed: ">> \o ErrorToString(b.error),
                   self |-> self, db |-> b.db, verifyCalls |-> b.verifyCalls,
                   signers |-> b.signers, clientCalls |-> b.clientCalls]
             ELSE [threw |-> FALSE, error |-> <<>>,
                   self |-> [self EXCEPT !.smartAccount = b.smartAccount],
                   db |-> b.db, verifyCalls |-> b.verifyCalls,
                   signers |-> b.signers, clientCalls |-> b.clientCalls]
       IN reconfigured(buildFromAuthority(self.apiKey, db, generatedKey, sdk, id))

(* Mutant: revalidation happens only while the instance holds no handle *)
revalidateOnlyWithoutHandle(self, db, generatedKey, sdk, id) ==
  IF variant = "apikey" /\ ~Falsy(self.apiKey) /\ self.smartAccount = undefined
  THEN revalidateAndReconfigure(self, db, generatedKey, sdk, id)
  ELSE [threw |-> FALSE, error |-> <<>>, self |-> self, db |-> db,
        verifyCalls |-> 0, signers |-> 0, clientCalls |-> 0]

(* Mutant: an instance without an API key gets a fresh handle on every call *)
revalidateElseRebuild(self, db, generatedKey, sdk, id) ==
  IF variant = "apikey" /\ ~Falsy(self.apiKey)
  THEN revalidateAndReconfigure(self, db, generatedKey, sdk, id)
  ELSE [threw |-> FALSE, error |-> <<>>,
        self |-> IF self.smartAccount = undefined THEN self
                 ELSE [self EXCEPT !.smartAccount.id = id],
        db |-> db, verifyCalls |-> 0, signers |-> 0, clientCalls |-> 0]

(* "if (this.apiKey) { await this.revalidateAndReconfigure() }", the first    *)
(* statement of run, getAddress and getChainId in agentkit.ts; part_008 has   *)
(* no such step.                                                              *)
revalidateIfApiKey(self, db, generatedKey, sdk, id) ==
  IF variant = "apikey" /\ ~Falsy(self.apiKey)
  THEN revalidateAndReconfigure(self, db, generatedKey, sdk, id)
  ELSE [threw |-> FALSE, error |-> <<>>, self |-> self, db |-> db,
        verifyCalls |-> 0, signers |-> 0, clientCalls |-> 0]

-----------------------------------------------------------------------------
(* Agentkit.run *)

(* The registry's actions as far as run reads them: name, the               *)
(* smartAccountRequired flag and the needsFullAgentkit property.             *)
SmartTransferAction ==
  [name |-> "smart_transfer", smartAccountRequired |-> TRUE, needsFullAgentkit |-> "absent"]

GetAddressAction ==
  [name |-> "get_address", smartAccountRequired |-> FALSE, needsFullAgentkit |-> "absent"]

CowSwapExecuteAction ==
  [name |-> "cowswap_execute", smartAccountRequired |-> TRUE, needsFullAgentkit |-> "true"]

Actions == {SmartTransferAction, GetAddressAction, CowSwapExecuteAction}

(* What action.func does when called: resolve to a string or reject.          *)
FuncOutcomes ==
  { [kind |-> "returns", value |-> <<"Smart Account: ", "0xabc">>, error |-> <<>>],
    [kind |-> "returns", value |-> <<"Error: ", "insufficient balance">>, error |-> <<>>],
    [kind |-> "throws", value |-> <<>>, error |-> <<"unexpected failure">>] }

NotInvoked == [invoked |-> FALSE, firstArg |-> "none", passed |-> undefined]

(* 'needsFullAgentkit' in action && action.needsFullAgentkit *)
IsExtendedAction(action) == action.needsFullAgentkit = "true"

smartAccountRequiredMessage(action) ==
  <<"Unable to run Action: ", action.name, ". ", "A Smart Account is required",
    ". Please configure Agentkit with a Wallet to run this action.">>

(* Mutant: no try/catch around the call of func *)
invokeApiKeyVariantWithoutCatch(self, action, fn) ==
  [kind |-> IF fn.kind = "returns" THEN "returned" ELSE "threw",
   value |-> IF fn.kind = "returns" THEN fn.value ELSE fn.error,
   invoked |-> TRUE, firstArg |-> "smartAccount", passed |-> self.smartAccount]

(* agentkit.ts 194-200: func is always called with this.smartAccount; a      *)
(* rejection is caught and returned as text.                                 *)
invokeApiKeyVariant(self, action, fn) ==
  [kind |-> "returned",
   value |-> IF fn.kind = "returns" THEN fn.value
             ELSE <<"Action ", action.name, " failed: ">> \o ErrorToString(fn.error),
   invoked |-> TRUE, firstArg |-> "smartAccount", passed |-> self.smartAccount]

(* Mutant: the result of func is wrapped before it is returned *)
invokeExtendedVariantWrapping(self, action, fn) ==
  [kind |-> IF fn.kind = "returns" THEN "returned" ELSE "threw",
   value |-> IF fn.kind = "returns"
             THEN <<"Action ", action.name, " result: ">> \o fn.value ELSE fn.error,
   invoked |-> TRUE,
   firstArg |-> IF IsExtendedAction(action) THEN "agentkit" ELSE "smartAccount",
   passed |-> self.smartAccount]

(* part_008 162-171: an extended action is called with this, any other with  *)
(* this.smartAccount; "return await" lets a rejection propagate.             *)
invokeExtendedVariant(self, action, fn) ==
  [kind |-> IF fn.kind = "returns" THEN "returned" ELSE "threw",
   value |-> IF fn.kind = "returns" THEN fn.value ELSE fn.error,
   invoked |-> TRUE,
   firstArg |-> IF IsExtendedAction(action) THEN "agentkit" ELSE "smartAccount",
   passed |-> self.smartAccount]

invoke(self, action, fn) ==
  IF variant = "apikey" THEN invokeApiKeyVariant(self, action, fn)
  ELSE invokeExtendedVariant(self, action, fn)

(* What a method's revalidation step did to the instance and the key table,  *)
(* and the calls it made.                                                     *)
effects(rv) ==
  [self |-> rv.self, db |-> rv.db, verifyCalls |-> rv.verifyCalls,
   signers |-> rv.signers, clientCalls |-> rv.clientCalls, revalFailed |-> rv.threw]

(* Mutant: run without the "if (!this.smartAccount)" guard *)
runWithoutAccountGuard(self, action, fn, db, generatedKey, sdk, id) ==
  LET dispatch(rv) ==
        effects(rv) @@
        (IF rv.threw
         THEN NotInvoked @@
              [kind |-> "returned",
               value |-> <<"Unable to run Action: ", action.name, ". ",
                           "API key validation failed: ">> \o ErrorToString(rv.error)]
         ELSE invoke(rv.self, action, fn))
  IN dispatch(revalidateIfApiKey(self, db, generatedKey, sdk, id))

(* run (agentkit.ts 177-201, part_008 154-172) *)
run(self, action, fn, db, generatedKey, sdk, id) ==
  LET dispatch(rv) ==
        effects(rv) @@
        (IF rv.threw
         THEN NotInvoked @@
              [kind |-> "returned",
               value |-> <<"Unable to run Action: ", action.name, ". ",
                           "API key validation failed: ">> \o ErrorToString(rv.error)]
         ELSE IF rv.self.smartAccount = undefined
         THEN NotInvoked @@
              [kind |-> "returned", value |-> smartAccountRequiredMessage(action)]
         ELSE invoke(rv.self, action, fn))
  IN dispatch(revalidateIfApiKey(self, db, generatedKey, sdk, id))

(* getAddress (agentkit.ts 203-217, part_008 174-179) *)
getAddress(self, db, generatedKey, sdk, id) ==
  LET read(rv) ==
        effects(rv) @@ NotInvoked @@
        (IF rv.threw
         THEN [kind |-> "threw",
               value |-> <<"Cannot get address: ", "API key validation failed: ">> \o
                         ErrorToString(rv.error)]
         ELSE IF rv.self.smartAccount = undefined
         THEN [kind |-> "threw", value |-> <<"Smart account not configured">>]
         ELSE [kind |-> "returned",
               value |-> privateKeyToAddress(rv.self.smartAccount.privateKey)])
  IN read(revalidateIfApiKey(self, db, generatedKey, sdk, id))

(* getChainId (agentkit.ts 219-233, part_008 181-186) *)
getChainId(self, db, generatedKey, sdk, id) ==
  LET read(rv) ==
        effects(rv) @@ NotInvoked @@
        (IF rv.threw
         THEN [kind |-> "threw",
               value |-> <<"Cannot get chain ID: ", "API key validation failed: ">> \o
                         ErrorToString(rv.error)]
         ELSE IF rv.self.smartAccount = undefined
         THEN [kind |-> "threw", value |-> <<"Smart account not configured">>]
         ELSE [kind |-> "returned",
               value |-> <<ToString(rv.self.smartAccount.chainId)>>])
  IN read(revalidateIfApiKey(self, db, generatedKey, sdk, id))

-----------------------------------------------------------------------------
(* The state machine of the dispatcher and the credential context *)

NoAction == [name |-> "", smartAccountRequired |-> FALSE, needsFullAgentkit |-> "absent"]

NoFn == [kind |-> "none", value |-> <<>>, error |-> <<>>]

NoConfig == [apiKey |-> undefinedStr, chainID |-> 0, privateKey |-> undefinedStr,
             mnemonicPhrase |-> undefinedStr]

IdleLast ==
  [op |-> "none", action |-> NoAction, fn |-> NoFn, sdk |-> "none", config |-> NoConfig,
   kind |-> "none", value |-> <<>>, invoked |-> FALSE, firstArg |-> "none",
   passed |-> undefined, verifyCalls |-> 0, signers |-> 0, clientCalls |-> 0,
   revalFailed |-> FALSE, before |-> NoAgentkit]

InitialApiKeys ==
  [k \in ApiKeyNames |->
     CASE k = "test-api-key-123" ->
            [privateKey |-> PK_TEST, rpcUrl |-> AVAX_RPC, chainId |-> 43114]
       [] k = "demo-key-456" ->
            [privateKey |-> PK_DEMO, rpcUrl |-> AVAX_RPC, chainId |-> 43114]
       [] OTHER -> undefined]

ChainInputs == {43114, 56, 1, 11155111}

ConfigInputs ==
  [apiKey : {"", undefinedStr, "test-api-key-123"}, chainID : {43114, 1, 11155111},
   privateKey : {undefinedStr, PK_CUSTOM}, mnemonicPhrase : {undefinedStr, "test mnemonic"}]

ApiKeyInputs == {"", "test-api-key-123", "custom-test-key"}

WalletDataInputs ==
  [privateKey : {PK_CUSTOM, PK_MALFORMED}, rpcUrl : {AVAX_RPC}, chainId : {43114, 1}]

(* the keys whose entry is added, replaced or removed while the model runs *)
RotatedApiKeys == {"custom-test-key"}

SdkOutcomes == {"ok", "fail"}

IdleAction == [name |-> "none", input |-> undefined, kind |-> "none", result |-> <<>>,
               submitted |-> <<>>]

(* the callers that may have a run call in flight at the same time *)
Callers == {1, 2}

IdleCall == [pc |-> "idle", verified |-> undefined, built |-> undefined,
             used |-> undefined, outcome |-> "none"]

InitActions ==
  /\ alast = IdleAction
  /\ inflight = [i \in Callers |-> IdleCall]

InitServer ==
  /\ server = [serverMode |-> FALSE, apiKey |-> undefinedStr, serverUrl |-> undefinedStr,
               selectedWalletIndex |-> 0, chainId |-> 43114]
  /\ wallets = <<>>
  /\ slast = [op |-> "none"]

Init ==
  /\ variant \in {"apikey", "extended"}
  /\ TESTNET_SUPPORT \in BOOLEAN
  /\ validApiKeys = InitialApiKeys
  /\ agentkit = NoAgentkit
  /\ calls = 0
  /\ revalidations = 0
  /\ clients = 0
  /\ failedBefore = FALSE
  /\ last = IdleLast
  /\ InitServer
  /\ InitActions

(* new Agentkit({ chainID }) *)
Construct(chainID) ==
  /\ ~agentkit.constructed
  /\ LET r == Constructor([chainID |-> chainID])
     IN /\ agentkit' = r.self
        /\ last' = [IdleLast EXCEPT !.op = "constructor",
                      !.config = [NoConfig EXCEPT !.chainID = chainID],
                      !.kind = IF r.threw THEN "threw" ELSE "returned",
                      !.value = r.error]
  /\ UNCHANGED <<variant, TESTNET_SUPPORT, validApiKeys, calls, revalidations, clients,
                 failedBefore>>
  /\ UNCHANGED <<serverVars, actionVars>>

(* Agentkit.configureWithWallet(config) *)
ConfigureWithWallet(config, sdk) ==
  /\ ~agentkit.constructed
  /\ LET r == configureWithWallet(config, sdk, clients + 1)
     IN /\ agentkit' = r.self
        /\ clients' = IF r.threw THEN clients ELSE clients + 1
        /\ last' = [IdleLast EXCEPT !.op = "configureWithWallet", !.config = config,
                      !.sdk = sdk,
                      !.kind = IF r.threw THEN "threw" ELSE "returned",
                      !.value = r.error, !.signers = r.signers,
                      !.clientCalls = r.clientCalls]
  /\ UNCHANGED <<variant, TESTNET_SUPPORT, validApiKeys, calls, revalidations, failedBefore>>
  /\ UNCHANGED <<serverVars, actionVars>>

(* Agentkit.configureAgentkit(apiKey): exists in agentkit.ts only *)
ConfigureAgentkit(apiKey, generatedKey, sdk) ==
  /\ variant = "apikey"
  /\ ~agentkit.constructed
  /\ LET r == configureAgentkit(apiKey, validApiKeys, generatedKey, sdk, clients + 1)
     IN /\ agentkit' = r.self
        /\ validApiKeys' = r.db
        /\ clients' = IF r.threw THEN clients ELSE clients + 1
        /\ last' = [IdleLast EXCEPT !.op = "configureAgentkit",
                      !.config = [NoConfig EXCEPT !.apiKey = apiKey], !.sdk = sdk,
                      !.kind = IF r.threw THEN "threw" ELSE "returned",
                      !.value = r.error, !.verifyCalls = r.verifyCalls,
                      !.signers = r.signers, !.clientCalls = r.clientCalls]
  /\ UNCHANGED <<variant, TESTNET_SUPPORT, calls, revalidations, failedBefore>>
  /\ UNCHANGED <<serverVars, actionVars>>

(* The part common to the three instance methods: apply the method's effect. *)
Apply(op, action, fn, sdk, r) ==
  /\ agentkit' = r.self
  /\ validApiKeys' = r.db
  /\ calls' = calls + 1
  /\ revalidations' = revalidations + r.verifyCalls
  /\ clients' = IF r.self.smartAccount # agentkit.smartAccount THEN clients + 1 ELSE clients
  /\ failedBefore' = (failedBefore \/ r.revalFailed)
  /\ last' = [IdleLast EXCEPT !.op = op, !.action = action, !.fn = fn, !.sdk = sdk,
                !.kind = r.kind, !.value = r.value, !.invoked = r.invoked,
                !.firstArg = r.firstArg, !.passed = r.passed,
                !.verifyCalls = r.verifyCalls, !.signers = r.signers,
                !.clientCalls = r.clientCalls, !.revalFailed = r.revalFailed,
                !.before = agentkit]
  /\ UNCHANGED <<variant, TESTNET_SUPPORT>>
  /\ UNCHANGED <<serverVars, actionVars>>

(* agentkit.run(action, args) *)
Run(action, fn, generatedKey, sdk) ==
  /\ agentkit.constructed
  /\ calls < MaxCalls
  /\ \E r \in {run(agentkit, action, fn, validApiKeys, generatedKey, sdk, clients + 1)} :
       Apply("run", action, fn, sdk, r)

(* agentkit.getAddress() *)
GetAddress(generatedKey, sdk) ==
  /\ agentkit.constructed
  /\ calls < MaxCalls
  /\ \E r \in {getAddress(agentkit, validApiKeys, generatedKey, sdk, clients + 1)} :
       Apply("getAddress", NoAction, NoFn, sdk, r)

(* agentkit.getChainId() *)
GetChainId(generatedKey, sdk) ==
  /\ agentkit.constructed
  /\ calls < MaxCalls
  /\ \E r \in {getChainId(agentkit, validApiKeys, generatedKey, sdk, clients + 1)} :
       Apply("getChainId", NoAction, NoFn, sdk, r)

(* authService.addApiKey(apiKey, walletData) *)
AddApiKey(apiKey, walletData) ==
  /\ variant = "apikey"
  /\ validApiKeys' = addApiKey(validApiKeys, apiKey, walletData)
  /\ last' = [IdleLast EXCEPT !.op = "addApiKey"]
  /\ UNCHANGED <<variant, TESTNET_SUPPORT, agentkit, calls, revalidations, clients,
                 failedBefore>>
  /\ UNCHANGED <<serverVars, actionVars>>

(* authService.removeApiKey(apiKey) *)
RemoveApiKey(apiKey) ==
  /\ variant = "apikey"
  /\ validApiKeys' = removeApiKey(validApiKeys, apiKey)
  /\ last' = [IdleLast EXCEPT !.op = "removeApiKey"]
  /\ UNCHANGED <<variant, TESTNET_SUPPORT, agentkit, calls, revalidations, clients,
                 failedBefore>>
  /\ UNCHANGED <<serverVars, actionVars>>

Next ==
  \/ \E chainID \in ChainInputs : Construct(chainID)
  \/ \E config \in ConfigInputs, sdk \in SdkOutcomes : ConfigureWithWallet(config, sdk)
  \/ \E apiKey \in ApiKeyInputs, g \in GeneratedKeys, sdk \in SdkOutcomes :
       ConfigureAgentkit(apiKey, g, sdk)
  \/ \E action \in Actions, fn \in FuncOutcomes, g \in GeneratedKeys, sdk \in SdkOutcomes :
       Run(action, fn, g, sdk)
  \/ \E g \in GeneratedKeys, sdk \in SdkOutcomes : GetAddress(g, sdk)
  \/ \E g \in GeneratedKeys, sdk \in SdkOutcomes : GetChainId(g, sdk)
  \/ \E apiKey \in RotatedApiKeys, walletData \in WalletDataInputs :
       AddApiKey(apiKey, walletData)
  \/ \E apiKey \in RotatedApiKeys : RemoveApiKey(apiKey)

Spec == Init /\ [][Next]_vars

-----------------------------------------------------------------------------
(* Properties of the dispatcher and the credential context (checked under Spec) *)

InstanceOps == {"run", "getAddress", "getChainId"}

ApiKeyInstance == agentkit.constructed /\ ~Falsy(agentkit.apiKey)

ValidationFailureReported ==
  /\ Contains(last.value, "API key validation failed: ")
  /\ last.kind = (IF last.op = "run" THEN "returned" ELSE "threw")

\* C1: run of an action with smartAccountRequired = true on an instance that
\* holds no smart account returns a string containing "A Smart Account is
\* required" and the action's name, does not call the action's function and
\* does not throw.
C1_RefusalWithoutSmartAccount ==
  (/\ last.op = "run"
   /\ last.before.smartAccount = undefined
   /\ Falsy(last.before.apiKey)
   /\ last.action.smartAccountRequired)
  => /\ last.kind = "returned"
     /\ Contains(last.value, "A Smart Account is required")
     /\ Contains(last.value, last.action.name)
     /\ ~last.invoked

C1_Witness ==
  /\ last.op = "run"
  /\ last.before.constructed
  /\ last.before.smartAccount = undefined
  /\ last.action = CowSwapExecuteAction
  /\ last.value = smartAccountRequiredMessage(CowSwapExecuteAction)

\* C2: on an instance created by configureAgentkit every run / getAddress /
\* getChainId call makes exactly one verifyApiKey call and, when that
\* succeeds, builds exactly one new smart-account handle, before anything
\* else: the number of revalidations equals the number of calls, the handle
\* held after a successful call is a new one (never the one held before the
\* call), and the action's function receives that new handle.
C2_RevalidationOnEveryCall ==
  ApiKeyInstance =>
    /\ revalidations = calls
    /\ last.op \in InstanceOps =>
         /\ last.verifyCalls = 1
         /\ ~last.revalFailed =>
              /\ last.clientCalls = 1
              /\ agentkit.smartAccount.id = clients
              /\ agentkit.smartAccount.id > last.before.smartAccount.id
         /\ last.invoked => last.passed = agentkit.smartAccount
         /\ last.revalFailed => ~last.invoked

C2_Witness ==
  /\ ApiKeyInstance
  /\ calls = 3
  /\ revalidations = 3
  /\ last.op = "getAddress"
  /\ last.kind = "returned"
  /\ agentkit.smartAccount.id = 4

\* C3: when revalidation fails during run / getAddress / getChainId on an
\* API-key instance, only that call fails: the instance keeps its API key and
\* the handle it held, the call verifies the key once and does not retry and
\* does not call the action, and a call whose revalidation the authority and
\* the SDK accept succeeds whatever failed before.
C3_FailedRevalidationIsPerCall ==
  (ApiKeyInstance /\ last.op \in InstanceOps) =>
    /\ last.revalFailed =>
         /\ agentkit = last.before
         /\ last.verifyCalls = 1
         /\ last.clientCalls <= 1
         /\ ~last.invoked
         /\ ValidationFailureReported
    /\ (/\ last.sdk = "ok"
        /\ verifyApiKey(agentkit.apiKey, validApiKeys, "0xgenerated-1").success)
       => /\ ~last.revalFailed
          /\ ~Contains(last.value, "API key validation failed: ")
          /\ last.op = "run" => last.invoked
          /\ last.op # "run" => last.kind = "returned"

C3_Witness ==
  /\ ApiKeyInstance
  /\ failedBefore
  /\ last.op = "getAddress"
  /\ ~last.revalFailed
  /\ last.kind = "returned"
  /\ last.before.smartAccount # agentkit.smartAccount

\* C4: in API-key mode every successful run / getAddress / getChainId uses the
\* account and chain ID built, during that call, from the wallet data the
\* authority holds for the instance's key at that call; a handle built by an
\* earlier call is never used, also when the data was replaced in between.
C4_NoCredentialSurvivesACall ==
  (ApiKeyInstance /\ last.op \in InstanceOps) =>
    IF last.revalFailed
    THEN ~last.invoked /\ ValidationFailureReported
    ELSE LET walletData == validApiKeys[agentkit.apiKey]
             used == IF last.op = "run" THEN last.passed ELSE agentkit.smartAccount
         IN /\ walletData # undefined
            /\ used.privateKey = walletData.privateKey
            /\ used.chainId = walletData.chainId
            /\ used.id > last.before.smartAccount.id
            /\ last.op = "run" => last.invoked
            /\ last.op = "getAddress" =>
                 last.value = privateKeyToAddress(walletData.privateKey)
            /\ last.op = "getChainId" => last.value = <<ToString(walletData.chainId)>>

C4_Witness ==
  /\ ApiKeyInstance
  /\ last.op = "getChainId"
  /\ last.kind = "returned"
  /\ last.before.smartAccount.chainId = 43114
  /\ last.before.smartAccount.privateKey \in GeneratedKeys
  /\ last.value = <<"1">>
  /\ agentkit.smartAccount.privateKey = PK_CUSTOM

\* C6 (as stated): whenever the action's function throws, run returns a
\* string instead of propagating the exception, in every implementation of
\* run and for standard and extended actions.
C6_RunNeverThrows ==
  (last.op = "run" /\ last.invoked /\ last.fn.kind = "throws") => last.kind = "returned"

\* C6 (amended): when the action's function throws, run of agentkit.ts (the
\* API-key version) returns the string "Action <name> failed: <error>", while
\* run of the extended-action version (part_008) has no catch and lets the
\* exception propagate to its caller, for standard and for extended actions.
C6_RunCatchesOnlyInApiKeyVariant ==
  (last.op = "run" /\ last.invoked /\ last.fn.kind = "throws") =>
    IF variant = "apikey"
    THEN /\ last.kind = "returned"
         /\ last.value = <<"Action ", last.action.name, " failed: ", "Error: ">>
                         \o last.fn.error
    ELSE /\ last.kind = "threw"
         /\ last.value = last.fn.error

C6_Witness ==
  /\ variant = "apikey"
  /\ last.op = "run"
  /\ last.invoked
  /\ last.fn.kind = "throws"
  /\ last.kind = "returned"
  /\ Contains(last.value, " failed: ")

\* C7: when the action's function returns a string s, run returns exactly s,
\* in local mode and in API-key mode, for standard and extended actions.
C7_ResultReturnedVerbatim ==
  (last.op = "run" /\ last.invoked /\ last.fn.kind = "returns") =>
    /\ last.kind = "returned"
    /\ last.value = last.fn.value

C7_Witness ==
  /\ variant = "extended"
  /\ last.op = "run"
  /\ last.invoked
  /\ last.action = CowSwapExecuteAction
  /\ last.fn.kind = "returns"
  /\ last.value = <<"Smart Account: ", "0xabc">>

\* C8: run passes the full Agentkit instance as the first argument of the
\* action's function exactly when the action is an extended action, and the
\* smart-account handle otherwise, on every configured instance.
C8_FullInstanceExactlyForExtended ==
  (last.op = "run" /\ last.invoked) =>
    last.firstArg = (IF IsExtendedAction(last.action) THEN "agentkit" ELSE "smartAccount")

\* C9: new Agentkit(config), and configureWithWallet(config) with a non-empty
\* API key, throw for a chainID that is no key of the supported-chain table;
\* the message contains that chain ID, no instance results, and no signer and
\* no smart-account client has been created.
C9_UnsupportedChainIsFatal ==
  (/\ last.op \in {"constructor", "configureWithWallet"}
   /\ last.config.chainID \notin supportedChains
   /\ last.op = "configureWithWallet" => ~Falsy(last.config.apiKey))
  => /\ last.kind = "threw"
     /\ Contains(last.value, ToString(last.config.chainID))
     /\ last.signers = 0
     /\ last.clientCalls = 0
     /\ ~agentkit.constructed

C9_Witness ==
  /\ last.op = "configureWithWallet"
  /\ last.config.apiKey = "test-api-key-123"
  /\ last.config.privateKey = PK_CUSTOM
  /\ last.config.chainID = 1
  /\ last.kind = "threw"
  /\ last.value = <<"Chain ID ", "1", " is not supported">>

\* C10: an instance never holds a smart-account handle bound to a chain ID
\* outside the supported-chain table, on any configure path and after any
\* revalidation.
C10_HandleChainIsSupported ==
  (agentkit.constructed /\ agentkit.smartAccount # undefined)
    => agentkit.smartAccount.chainId \in supportedChains

MissingCredentialMaterial ==
  \/ /\ last.op = "configureWithWallet"
     /\ \/ Falsy(last.config.apiKey)
        \/ /\ last.config.privateKey = undefinedStr
           /\ last.config.mnemonicPhrase = undefinedStr
  \/ /\ last.op = "configureAgentkit"
     /\ last.config.apiKey = ""

\* C11: configureWithWallet with an empty or missing apiKey, or with neither
\* privateKey nor mnemonicPhrase, and configureAgentkit with an empty apiKey,
\* throw, return no instance, and create no smart-account client.
C11_MissingCredentialIsFatal ==
  MissingCredentialMaterial =>
    /\ last.kind = "threw"
    /\ ~agentkit.constructed
    /\ last.clientCalls = 0
    /\ clients = 0

C11_Witness ==
  /\ last.op = "configureWithWallet"
  /\ last.config.apiKey = "test-api-key-123"
  /\ last.config.chainID = 43114
  /\ last.config.privateKey = undefinedStr
  /\ last.config.mnemonicPhrase = undefinedStr
  /\ last.kind = "threw"
  /\ Contains(last.value, "Either privateKey or mnemonicPhrase must be provided")

\* C12: the credential mode of an instance is fixed by its factory: an
\* instance returned by configureWithWallet has no revalidation API key, an
\* instance returned by configureAgentkit has the key it was given; no step
\* changes the API key of a constructed instance or unconstructs it; an
\* instance without a key never revalidates and one with a key revalidates on
\* every run / getAddress / getChainId call.
C12_CredentialModeIsFixed ==
  /\ [](/\ (last.op = "configureWithWallet" /\ last.kind = "returned")
            => (agentkit.constructed /\ Falsy(agentkit.apiKey))
        /\ (last.op = "configureAgentkit" /\ last.kind = "returned")
            => (agentkit.constructed /\ agentkit.apiKey = last.config.apiKey
                /\ ~Falsy(agentkit.apiKey))
        /\ (agentkit.constructed /\ Falsy(agentkit.apiKey))
            => (revalidations = 0 /\ last.verifyCalls = 0)
        /\ (ApiKeyInstance /\ last.op \in InstanceOps)
            => (revalidations = calls /\ last.verifyCalls = 1))
  /\ [][agentkit.constructed
          => (agentkit'.constructed /\ agentkit'.apiKey = agentkit.apiKey)]_vars

C12_Witness ==
  /\ ApiKeyInstance
  /\ calls = 2
  /\ failedBefore
  /\ last.op = "getChainId"
  /\ last.kind = "returned"
  /\ agentkit.apiKey = "test-api-key-123"

\* C13: an instance that holds a smart-account handle holds one after every
\* run / getAddress / getChainId call, failed or not; an instance without an
\* API key keeps the very handle configureWithWallet built, and that handle
\* is the one an action's function is given.
C13_ReadyStaysReady ==
  /\ [][(agentkit.constructed /\ agentkit.smartAccount # undefined)
          => /\ agentkit'.smartAccount # undefined
             /\ Falsy(agentkit.apiKey) => agentkit'.smartAccount = agentkit.smartAccount]_vars
  /\ []((last.op = "run" /\ last.invoked /\ Falsy(last.before.apiKey))
          => (last.passed = last.before.smartAccount /\ last.passed.id = 1))

C13_Witness ==
  /\ last.op = "run"
  /\ last.invoked
  /\ calls = 3
  /\ Falsy(agentkit.apiKey)
  /\ last.fn.kind = "throws"
  /\ agentkit.smartAccount.id = 1
  /\ last.passed = agentkit.smartAccount

\* C14: on an instance created by configureAgentkit, run, getAddress and
\* getChainId report an API-key validation failure by returning an error
\* message, never by throwing.
C14_ValidationFailureIsReturned ==
  (ApiKeyInstance /\ last.op \in InstanceOps /\ last.revalFailed)
    => last.kind = "returned"

-----------------------------------------------------------------------------
(* Server-wallet mode.  The server-mode fields and accessors of the agent    *)
(* instance (isServerMode, getApiKey, getServerUrl, getSelectedWalletIndex,  *)
(* setSelectedWalletIndex, getChainId) are called by the actions but defined *)
(* in no file at hand; they are modelled as plain field accessors.  The      *)
(* action functions themselves are modelled from their source.               *)

isServerMode(a) == a.serverMode

getApiKey(a) == a.apiKey

getServerUrl(a) == a.serverUrl

getSelectedWalletIndex(a) == a.selectedWalletIndex

setSelectedWalletIndex(a, index) == [a EXCEPT !.selectedWalletIndex = index]

(* What an action function can be handed as its first argument:              *)
(*   "agentkit"     the agent instance (an object with an isServerMode method) *)
(*   "smartAccount" a smart-account handle (an object without that method)     *)
(*   "null"         nothing                                                    *)
Targets == {"agentkit", "smartAccount", "null"}

(* agentkit && typeof agentkit === 'object' && 'isServerMode' in agentkit &&  *)
(* typeof agentkit.isServerMode === 'function'                                *)
HasIsServerMode(target) == target = "agentkit"

LOCAL_ADDRESS == "0xLocalSmartAccount"

(* ServerWalletService.listWallets (serverWalletService.ts 48-65) *)
listWallets(list, net) ==
  IF net = "listWalletsFails"
  THEN [threw |-> TRUE, error |-> <<"Failed to list wallets: ", "fetch failed">>, wallets |-> <<>>]
  ELSE [threw |-> FALSE, error |-> <<>>, wallets |-> list]

(* Array.prototype.find(w => w.accountIndex === walletIndex): the first match *)
findWallet(list, walletIndex) ==
  LET hits == {i \in 1..Len(list) : list[i].accountIndex = walletIndex}
  IN IF hits = {} THEN undefined
     ELSE list[CHOOSE i \in hits : \A j \in hits : i <= j]

(* Mutant: the switch is confirmed but the index is not stored *)
selectServerWalletNotStoring(target, a, args) ==
  IF ~HasIsServerMode(target)
  THEN [result |-> <<"Error: ", "Invalid agentkit instance provided.">>, server |-> a]
  ELSE IF ~isServerMode(a)
  THEN [result |-> <<"Error: ", "This action is only available in server mode. Please configure the agent with an API key.">>,
        server |-> a]
  ELSE [result |-> <<"Successfully switched from wallet index ",
                     ToString(getSelectedWalletIndex(a)),
                     " to wallet index ", ToString(args.walletIndex),
                     ". All future transactions will use wallet index ",
                     ToString(args.walletIndex), ".">>,
        server |-> a]

(* Mutant: the index is stored before the instance is examined *)
selectServerWalletStoringFirst(target, a, args) ==
  IF ~HasIsServerMode(target)
  THEN [result |-> <<"Error: ", "Invalid agentkit instance provided.">>,
        server |-> setSelectedWalletIndex(a, args.walletIndex)]
  ELSE IF ~isServerMode(a)
  THEN [result |-> <<"Error: ", "This action is only available in server mode. Please configure the agent with an API key.">>,
        server |-> setSelectedWalletIndex(a, args.walletIndex)]
  ELSE [result |-> <<"Successfully switched from wallet index ",
                     ToString(getSelectedWalletIndex(a)),
                     " to wallet index ", ToString(args.walletIndex),
                     ". All future transactions will use wallet index ",
                     ToString(args.walletIndex), ".">>,
        server |-> setSelectedWalletIndex(a, args.walletIndex)]

(* selectServerWallet (selectServerWalletAction.ts 23-54) *)
selectServerWallet(target, a, args) ==
  IF ~HasIsServerMode(target)
  THEN [result |-> <<"Error: ", "Invalid agentkit instance provided.">>, server |-> a]
  ELSE IF ~isServerMode(a)
  THEN [result |-> <<"Error: ", "This action is only available in server mode. Please configure the agent with an API key.">>,
        server |-> a]
  ELSE LET previousIndex == getSelectedWalletIndex(a)
       IN [result |-> <<"Successfully switched from wallet index ", ToString(previousIndex),
                        " to wallet index ", ToString(args.walletIndex),
                        ". All future transactions will use wallet index ",
                        ToString(args.walletIndex), ".">>,
           server |-> setSelectedWalletIndex(a, args.walletIndex)]

(* Mutant: the address is always read from the wallet at index 0 *)
actionGetAddressDefaultIndex(target, a, list, net) ==
  IF HasIsServerMode(target) /\ isServerMode(a)
  THEN LET l == listWallets(list, net)
           currentWallet == findWallet(l.wallets, 0)
       IN IF Falsy(getApiKey(a)) \/ Falsy(getServerUrl(a))
          THEN [result |-> <<"Error: ", "Server configuration is incomplete. Missing API key or server URL.">>,
                wallet |-> undefined]
          ELSE IF l.threw
          THEN [result |-> <<"Error getting address: ">> \o l.error, wallet |-> undefined]
          ELSE IF currentWallet = undefined
          THEN [result |-> <<"Error: ", "No wallet found at index ", "0",
                             ". Use list_server_wallets to see available wallets.">>,
                wallet |-> undefined]
          ELSE [result |-> <<"Smart Account (Server Wallet Index ", "0", "): ",
                             currentWallet.smartAddress>>,
                wallet |-> currentWallet]
  ELSE [result |-> <<"Smart Account: ", LOCAL_ADDRESS>>, wallet |-> undefined]

(* getAddress, the function of get_address (part_007 533-582) *)
actionGetAddress(target, a, list, net) ==
  IF HasIsServerMode(target) /\ isServerMode(a)
  THEN LET walletIndex == getSelectedWalletIndex(a)
           l == listWallets(list, net)
           currentWallet == findWallet(l.wallets, walletIndex)
       IN IF Falsy(getApiKey(a)) \/ Falsy(getServerUrl(a))
          THEN [result |-> <<"Error: ", "Server configuration is incomplete. Missing API key or server URL.">>,
                wallet |-> undefined]
          ELSE IF l.threw
          THEN [result |-> <<"Error getting address: ">> \o l.error, wallet |-> undefined]
          ELSE IF currentWallet = undefined
          THEN [result |-> <<"Error: ", "No wallet found at index ", ToString(walletIndex),
                             ". Use list_server_wallets to see available wallets.">>,
                wallet |-> undefined]
          ELSE [result |-> <<"Smart Account (Server Wallet Index ", ToString(walletIndex),
                             "): ", currentWallet.smartAddress>>,
                wallet |-> currentWallet]
  ELSE IF target = "null"
  THEN [result |-> <<"Error getting address: ",
                     "Cannot read properties of null (reading 'getAddress')">>,
        wallet |-> undefined]
  ELSE [result |-> <<"Smart Account: ", LOCAL_ADDRESS>>, wallet |-> undefined]

(* the explorer switch of getBalance (getBalanceAction.ts 122-153) *)
explorerName(chainId) ==
  CASE chainId = 43114 -> "Snowscan"
    [] chainId = 56 -> "BscScan"
    [] chainId = 8453 -> "BaseScan"
    [] chainId = 250 -> "FTMScan"
    [] chainId = 1284 -> "Moonscan"
    [] chainId = 1088 -> "Metis Explorer"
    [] OTHER -> "Etherscan"

explorerUrl(chainId, smartAddress) ==
  CASE chainId = 43114 -> <<"https://snowscan.xyz/address/", smartAddress>>
    [] chainId = 56 -> <<"https://bscscan.com/address/", smartAddress>>
    [] chainId = 8453 -> <<"https://basescan.org/address/", smartAddress>>
    [] chainId = 250 -> <<"https://ftmscan.com/address/", smartAddress>>
    [] chainId = 1284 -> <<"https://moonscan.io/address/", smartAddress>>
    [] chainId = 1088 -> <<"https://explorer.metis.io/address/", smartAddress>>
    [] OTHER -> <<"https://etherscan.io/address/", smartAddress>>

(* getBalance, the function of get_balance (getBalanceAction.ts 82-270).  In *)
(* server mode the chain ID is awaited before the configuration is checked.  *)
(* The local branch reads balances from the chain; it is modelled for a call *)
(* without token arguments whose provider reports one non-zero balance.      *)
actionGetBalance(target, a, list, net) ==
  IF HasIsServerMode(target) /\ isServerMode(a)
  THEN LET walletIndex == getSelectedWalletIndex(a)
           chainId == a.chainId
           l == listWallets(list, net)
           currentWallet == findWallet(l.wallets, walletIndex)
       IN IF net = "getChainIdFails"
          THEN [result |-> <<"Error getting balance: ", "chain ID unavailable">>,
                wallet |-> undefined]
          ELSE IF Falsy(getApiKey(a)) \/ Falsy(getServerUrl(a))
          THEN [result |-> <<"Error: ", "Server configuration is incomplete. Missing API key or server URL.">>,
                wallet |-> undefined]
          ELSE IF l.threw
          THEN [result |-> <<"Error getting balance: ">> \o l.error, wallet |-> undefined]
          ELSE IF currentWallet = undefined
          THEN [result |-> <<"Error: ", "No wallet found at index ", ToString(walletIndex),
                             ". Use list_server_wallets to see available wallets.">>,
                wallet |-> undefined]
          ELSE [result |-> <<"Server Wallet Balance Check\n\nWallet Address: ",
                             currentWallet.smartAddress, "\nWallet Index: ",
                             ToString(walletIndex),
                             "\n\nFor server-managed wallets, balances cannot be checked directly through the SDK.\nPlease check your balance on ",
                             explorerName(chainId), ":\n">>
                           \o explorerUrl(chainId, currentWallet.smartAddress)
                           \o <<"\n\nNote: Direct balance checking for server wallets will be available in a future update.">>,
                wallet |-> currentWallet]
  ELSE IF target = "null"
  THEN [result |-> <<"Error getting balance: ",
                     "Cannot read properties of null (reading 'getAddress')">>,
        wallet |-> undefined]
  ELSE [result |-> <<"Smart Account: ", LOCAL_ADDRESS, "\n", "All Token Balances:", "\n",
                     "AVAX: 1.0">>,
        wallet |-> undefined]

-----------------------------------------------------------------------------
(* The state machine of server-wallet mode *)

NetOutcomes == {"ok", "listWalletsFails", "getChainIdFails"}

ServerWallet(accountIndex) ==
  [accountIndex |-> accountIndex, smartAddress |-> "0xServerWallet-" \o ToString(accountIndex)]

NoOp == [op |-> "none", target |-> "none", walletIndex |-> 0, result |-> <<>>]

IdleServerLast ==
  [op |-> "none", target |-> "none", walletIndex |-> 0, result |-> <<>>,
   wallet |-> undefined, before |-> 0, listed |-> <<>>, previous |-> NoOp]

Summary(l) == [op |-> l.op, target |-> l.target, walletIndex |-> l.walletIndex,
               result |-> l.result]

InitCore ==
  /\ variant = "apikey"
  /\ TESTNET_SUPPORT = FALSE
  /\ validApiKeys = InitialApiKeys
  /\ agentkit = NoAgentkit
  /\ calls = 0
  /\ revalidations = 0
  /\ clients = 0
  /\ failedBefore = FALSE
  /\ last = IdleLast

(* An agent instance after construction: in server mode it holds an API key, *)
(* a server URL and the selected wallet index 0.                             *)
ServerInit ==
  /\ InitCore
  /\ InitActions
  /\ \E mode \in BOOLEAN, url \in {"https://wallets.example", undefinedStr},
        chainId \in {43114, 56} :
       server = [serverMode |-> mode,
                 apiKey |-> IF mode THEN "server-api-key" ELSE undefinedStr,
                 serverUrl |-> IF mode THEN url ELSE undefinedStr,
                 selectedWalletIndex |-> 0,
                 chainId |-> chainId]
  /\ wallets = <<>>
  /\ slast = IdleServerLast

(* select_server_wallet executed with args.walletIndex *)
SelectServerWallet(target, walletIndex) ==
  /\ LET r == selectServerWallet(target, server, [walletIndex |-> walletIndex])
     IN /\ server' = r.server
        /\ slast' = [op |-> "select_server_wallet", target |-> target,
                     walletIndex |-> walletIndex, result |-> r.result,
                     wallet |-> undefined, before |-> server.selectedWalletIndex,
                     listed |-> <<>>, previous |-> Summary(slast)]
  /\ UNCHANGED wallets
  /\ UNCHANGED <<coreVars, actionVars>>

(* get_address executed *)
ExecGetAddress(target, net) ==
  /\ LET r == actionGetAddress(target, server, wallets, net)
     IN slast' = [op |-> "get_address", target |-> target,
                  walletIndex |-> server.selectedWalletIndex, result |-> r.result,
                  wallet |-> r.wallet, before |-> server.selectedWalletIndex,
                  listed |-> wallets, previous |-> Summary(slast)]
  /\ UNCHANGED <<server, wallets>>
  /\ UNCHANGED <<coreVars, actionVars>>

(* get_balance executed *)
ExecGetBalance(target, net) ==
  /\ LET r == actionGetBalance(target, server, wallets, net)
     IN slast' = [op |-> "get_balance", target |-> target,
                  walletIndex |-> server.selectedWalletIndex, result |-> r.result,
                  wallet |-> r.wallet, before |-> server.selectedWalletIndex,
                  listed |-> wallets, previous |-> Summary(slast)]
  /\ UNCHANGED <<server, wallets>>
  /\ UNCHANGED <<coreVars, actionVars>>

(* The remote wallet service creates a wallet; it gets the next account index. *)
ServerCreatesWallet ==
  /\ Len(wallets) <= MaxWalletIndex
  /\ wallets' = Append(wallets, ServerWallet(Len(wallets)))
  /\ UNCHANGED <<server, slast>>
  /\ UNCHANGED <<coreVars, actionVars>>

ServerNext ==
  \/ \E target \in Targets, walletIndex \in 0..(MaxWalletIndex + 1) :
       SelectServerWallet(target, walletIndex)
  \/ \E target \in Targets, net \in NetOutcomes : ExecGetAddress(target, net)
  \/ \E target \in Targets, net \in NetOutcomes : ExecGetBalance(target, net)
  \/ ServerCreatesWallet

ServerSpec == ServerInit /\ [][ServerNext]_vars

\* C5: in server-wallet mode, select_server_wallet executed with walletIndex M
\* on an instance whose selected index is N answers with N as the previous and
\* M as the new index and stores M; the very next get_address or get_balance
\* on that instance looks up accountIndex M: it reads a wallet whose
\* accountIndex is M, or reports that no wallet exists at index M or that the
\* list could not be read, and never reads another wallet.
C5_SelectedWalletIsReadNext ==
  /\ (slast.op = "select_server_wallet" /\ slast.target = "agentkit" /\ server.serverMode)
     => /\ slast.result = <<"Successfully switched from wallet index ",
                            ToString(slast.before), " to wallet index ",
                            ToString(slast.walletIndex),
                            ". All future transactions will use wallet index ",
                            ToString(slast.walletIndex), ".">>
        /\ server.selectedWalletIndex = slast.walletIndex
  /\ (/\ slast.op \in {"get_address", "get_balance"}
      /\ slast.target = "agentkit"
      /\ server.serverMode
      /\ slast.previous.op = "select_server_wallet"
      /\ slast.previous.target = "agentkit")
     => LET M == slast.previous.walletIndex
        IN IF slast.wallet # undefined
           THEN /\ slast.wallet.accountIndex = M
                /\ Contains(slast.result, slast.wallet.smartAddress)
                /\ Contains(slast.result, ToString(M))
           ELSE /\ \E i \in 1..Len(slast.result) :
                     slast.result[i] \in {"Error: ", "Error getting address: ",
                                          "Error getting balance: "}
                /\ (\E i \in 1..Len(slast.listed) : slast.listed[i].accountIndex = M)
                   => ~Contains(slast.result, "No wallet found at index ")

C5_Witness ==
  /\ slast.op = "get_address"
  /\ slast.target = "agentkit"
  /\ slast.previous.op = "select_server_wallet"
  /\ slast.previous.walletIndex = 2
  /\ Contains(slast.previous.result, "Successfully switched from wallet index ")
  /\ slast.wallet = ServerWallet(2)
  /\ slast.result = <<"Smart Account (Server Wallet Index ", "2", "): ", "0xServerWallet-2">>

-----------------------------------------------------------------------------
(* The functions of the actions.  Each is a pure function of its arguments   *)
(* and of what its collaborators (the bundler, the chain, third-party APIs)  *)
(* answer; it yields the string it returns and the requests it submitted.     *)

(* What a caller of sendTransaction observes: a response with success set, a *)
(* response with success unset (with or without an error text), no response  *)
(* at all, or a rejection.                                                    *)
TxOutcomes ==
  { [kind |-> "success", error |-> undefinedStr],
    [kind |-> "failure", error |-> "execution reverted"],
    [kind |-> "failure", error |-> undefinedStr],
    [kind |-> "falsy", error |-> undefinedStr],
    [kind |-> "throws", error |-> "bundler unreachable"] }

NoTx == [kind |-> "none", error |-> undefinedStr]

(* !response || !response.success *)
TxFailed(response) == response.kind \in {"failure", "falsy"}

(* response?.error || fallback *)
TxErrorOr(response, fallback) ==
  IF response.kind = "failure" /\ response.error # undefinedStr THEN response.error
  ELSE fallback

Returned(result, submitted) ==
  [kind |-> "returned", result |-> result, submitted |-> submitted]

USDC_ADDRESS == "0xb97ef9ef8734c71904d8002f8b6bc66dd9c48a6e"

(* smartDeposit (depositTokenAction.ts 63-116, and the copy in               *)
(* listServerWalletsAction.ts 410-461): both transactions are sent, one      *)
(* after the other, before either response is examined.                      *)
smartDeposit(args, approvalResponse, depositAndWrapResponse) ==
  IF ~args.encodable
  THEN Returned(<<"Error depositing asset: ">> \o ErrorToString(<<"invalid arguments">>), <<>>)
  ELSE IF approvalResponse.kind = "throws"
  THEN Returned(<<"Error depositing asset: ">> \o ErrorToString(<<approvalResponse.error>>),
                <<"approve">>)
  ELSE IF depositAndWrapResponse.kind = "throws"
  THEN Returned(<<"Error depositing asset: ">> \o
                  ErrorToString(<<depositAndWrapResponse.error>>),
                <<"approve", "depositAndWrap">>)
  ELSE IF TxFailed(approvalResponse)
  THEN Returned(<<"Transaction failed: ", TxErrorOr(approvalResponse, "Unknown error")>>,
                <<"approve", "depositAndWrap">>)
  ELSE IF TxFailed(depositAndWrapResponse)
  THEN Returned(<<"Transaction failed: ",
                  TxErrorOr(depositAndWrapResponse, "Unknown error")>>,
                <<"approve", "depositAndWrap">>)
  ELSE Returned(<<"The transaction has been confirmed on the blockchain. Successfully deposited ",
                  args.amount, " tokens from contract ", args.tokenAddress>>,
                <<"approve", "depositAndWrap">>)

(* smartWithdrawAction (withdrawTokenAction.ts 93-138) *)
smartWithdrawAction(args, approvalResponse, withdrawalTokenResponse) ==
  IF ~args.encodable
  THEN Returned(<<"Error depositing asset: ">> \o ErrorToString(<<"invalid arguments">>), <<>>)
  ELSE IF approvalResponse.kind = "throws"
  THEN Returned(<<"Error depositing asset: ">> \o ErrorToString(<<approvalResponse.error>>),
                <<"approve">>)
  ELSE IF withdrawalTokenResponse.kind = "throws"
  THEN Returned(<<"Error depositing asset: ">> \o
                  ErrorToString(<<withdrawalTokenResponse.error>>),
                <<"approve", "withdraw">>)
  ELSE IF TxFailed(approvalResponse)
  THEN Returned(<<"Approval transaction failed: ",
                  TxErrorOr(approvalResponse, "Unknown error")>>,
                <<"approve", "withdraw">>)
  ELSE IF TxFailed(withdrawalTokenResponse)
  THEN Returned(<<"Transaction failed: ",
                  TxErrorOr(withdrawalTokenResponse, "Unknown error")>>,
                <<"approve", "withdraw">>)
  ELSE Returned(<<"The transaction has been confirmed on the blockchain. Successfully withdrawal ",
                  args.amount, " tokens">>,
                <<"approve", "withdraw">>)

DepositArgs ==
  { [amount |-> "10", tokenAddress |-> USDC_ADDRESS, encodable |-> TRUE],
    [amount |-> "ten", tokenAddress |-> USDC_ADDRESS, encodable |-> FALSE] }

WithdrawArgs ==
  { [amount |-> "10", tokenTicker |-> "USDC", encodable |-> TRUE],
    [amount |-> "10", tokenTicker |-> "DOGE", encodable |-> FALSE] }

(* debridge_swap (part_007) *)

NATIVE_TOKEN == "0xEeeeeEeeeEeEeeEeEeEeeEEEeeeeEeeeeeeeEEeE"

(* tokenMappings (agentkit.ts 302-363), the entries the swap inputs touch *)
tokenMappings(chainId, symbol) ==
  CASE chainId = 43114 /\ symbol = "USDT" -> "0x9702230a8ea53601f5cd2dc00fdbc13d4df4a8c7"
    [] chainId = 43114 /\ symbol = "USDC" -> "0xb97ef9ef8734c71904d8002f8b6bc66dd9c48a6e"
    [] chainId = 56 /\ symbol = "USDT" -> "0x55d398326f99059ff775485246999027b3197955"
    [] chainId = 8453 /\ symbol = "USDC" -> "0x833589fcd6edb6e08f4c7c32d4f71b54bda02913"
    [] OTHER -> undefinedStr

toUpperCase(symbol) ==
  CASE symbol = "usdt" -> "USDT"
    [] symbol = "usdc" -> "USDC"
    [] symbol = "eth" -> "ETH"
    [] OTHER -> symbol

(* resolveTokenSymbol (part_007 93-113): an address is returned unchanged,   *)
(* 'eth' in any case is the native token, a mapped symbol is its address,    *)
(* anything else comes back as it was given.                                  *)
resolveTokenSymbol(symbol, chainId) ==
  IF toUpperCase(symbol) = "ETH" THEN NATIVE_TOKEN
  ELSE IF tokenMappings(chainId, toUpperCase(symbol)) # undefinedStr
  THEN tokenMappings(chainId, toUpperCase(symbol))
  ELSE symbol

(* Amounts are decimal strings; the model carries each with its value in     *)
(* tenths (parseFloat(text) * 10), -1 standing for NaN.                       *)
NaN == 0 - 1

Amount(text, tenths) == [text |-> text, tenths |-> tenths]

(* TOKEN_MINIMUMS (part_007 118-132), "1.0" when there is no entry *)
TOKEN_MINIMUMS(tokenKey, chainId) ==
  CASE tokenKey = "USDT" /\ chainId \in {43114, 56} -> Amount("1.0", 10)
    [] tokenKey = "USDT" /\ chainId \in {1, 10, 42161} -> Amount("0.5", 5)
    [] tokenKey = "USDC" /\ chainId \in {43114, 56} -> Amount("1.0", 10)
    [] tokenKey = "USDC" /\ chainId = 1 -> Amount("0.5", 5)
    [] OTHER -> Amount("1.0", 10)

(* a < b on parseFloat results: false whenever one side is NaN *)
FloatLess(a, b) == a # NaN /\ b # NaN /\ a < b

amountTooSmallMessage(tokenKey, chainId, minimumAmount) ==
  <<"Error: ", "Amount too small for cross-chain swap. For ", tokenKey, " on chain ",
    ToString(chainId), ", the minimum amount is ", minimumAmount.text,
    " to cover operational costs.">>

(* part_007 361-440: the minimum check and everything after it.  done is the *)
(* list of requests submitted before this point.                              *)
debridgeSwapOrder(args, env, srcChainId, done) ==
  LET tokenKey == toUpperCase(args.srcChainTokenIn)
      minimumAmount == TOKEN_MINIMUMS(tokenKey, srcChainId)
  IN IF FloatLess(args.srcChainTokenInAmount.tenths, minimumAmount.tenths)
     THEN Returned(amountTooSmallMessage(tokenKey, srcChainId, minimumAmount), done)
     ELSE IF env.api = "fetchThrows"
     THEN Returned(<<"Error creating DeBridge swap: ", "{}">>, done \o <<"orderRequest">>)
     ELSE IF env.api = "lowGiveAmountThrown"
     THEN Returned(<<"Error: ", "The amount you're trying to swap (",
                     args.srcChainTokenInAmount.text, " ", args.srcChainTokenIn,
                     ") is too small to cover the operational costs of a cross-chain swap.">>,
                   done \o <<"orderRequest">>)
     ELSE IF env.api = "notOk"
     THEN Returned(<<"Error creating DeBridge swap: ", "{\"errorId\":\"INTERNAL_ERROR\"}">>,
                   done \o <<"orderRequest">>)
     ELSE IF env.api = "invalid"
     THEN Returned(<<"Error: ", "Invalid response from DeBridge API: ", "{}">>,
                   done \o <<"orderRequest">>)
     ELSE IF env.swapTx.kind = "throws"
     THEN Returned(<<"Error creating DeBridge swap: ", "{}">>,
                   done \o <<"orderRequest", "swap">>)
     ELSE IF TxFailed(env.swapTx)
     THEN Returned(<<"Transaction failed: ", TxErrorOr(env.swapTx, "Unknown error")>>,
                   done \o <<"orderRequest", "swap">>)
     ELSE IF args.wait /\ env.status # "confirmed"
     THEN Returned(<<"Transaction status: ", env.status>>, done \o <<"orderRequest", "swap">>)
     ELSE IF args.wait
     THEN Returned(<<"Successfully initiated DeBridge swap!", args.srcChainTokenIn,
                     "Transaction confirmed in block ">>,
                   done \o <<"orderRequest", "swap">>)
     ELSE Returned(<<"Successfully submitted DeBridge swap!", args.srcChainTokenIn>>,
                   done \o <<"orderRequest", "swap">>)

(* part_007 242-359: step 1, the balance check and the approval of an ERC-20 *)
(* source token; it runs before the minimum is looked at.                     *)
debridgeSwapApproval(args, env, srcChainId) ==
  LET amount == IF args.srcChainTokenInAmount.text = "auto" THEN env.reads.balance
                ELSE args.srcChainTokenInAmount.tenths
  IN IF env.reads.threw
     THEN Returned(<<"Error during token approval check: ", "RPC request failed">>, <<>>)
     ELSE IF env.reads.balance < amount
     THEN Returned(<<"Error: ", "Insufficient token balance. Have ",
                     ToString(env.reads.balance), " but need ", ToString(amount)>>, <<>>)
     ELSE IF env.reads.allowance >= amount
     THEN debridgeSwapOrder(args, env, srcChainId, <<>>)
     ELSE IF env.approval.kind = "throws"
     THEN Returned(<<"Error during token approval check: ", env.approval.error>>,
                   <<"approve">>)
     ELSE IF TxFailed(env.approval)
     THEN Returned(<<"Token approval failed: ",
                     TxErrorOr(env.approval, "Unknown error during token approval")>>,
                   <<"approve">>)
     ELSE debridgeSwapOrder(args, env, srcChainId, <<"approve">>)

(* debridgeSwap (part_007 146-449) *)
debridgeSwap(args, env) ==
  LET srcChainId == IF args.srcChainId # 0 THEN args.srcChainId ELSE env.walletChain
      srcTokenAddress == resolveTokenSymbol(args.srcChainTokenIn, srcChainId)
      dstTokenAddress ==
        resolveTokenSymbol(args.dstChainTokenOut,
                           IF args.dstChainId # 0 THEN args.dstChainId ELSE srcChainId)
  IN IF srcChainId = 0
     THEN Returned(<<"Error: ", "Source chain ID could not be determined">>, <<>>)
     ELSE IF args.dstChainId # 0 /\ args.dstChainId \notin supportedChains
     THEN Returned(<<"Error: ", "Destination chain ID ", ToString(args.dstChainId),
                     " is not supported">>, <<>>)
     ELSE IF srcTokenAddress = args.srcChainTokenIn
     THEN Returned(<<"Error: ", "Could not resolve source token symbol ",
                     args.srcChainTokenIn, " to an address on chain ",
                     ToString(srcChainId)>>, <<>>)
     ELSE IF dstTokenAddress = args.dstChainTokenOut
     THEN Returned(<<"Error: ", "Could not resolve destination token symbol ",
                     args.dstChainTokenOut, " to an address on chain ",
                     ToString(args.dstChainId)>>, <<>>)
     ELSE IF args.srcChainTokenInAmount.text # "auto" /\ args.srcChainTokenInAmount.tenths <= 0
     THEN Returned(<<"Error: ", "Invalid amount. After conversion, got ", "0",
                     " which is not a positive integer.">>, <<>>)
     ELSE IF srcTokenAddress # NATIVE_TOKEN
     THEN debridgeSwapApproval(args, env, srcChainId)
     ELSE debridgeSwapOrder(args, env, srcChainId, <<>>)

DebridgeChains ==
  { [srcChainId |-> 0, dstChainId |-> 56],
    [srcChainId |-> 1, dstChainId |-> 56],
    [srcChainId |-> 0, dstChainId |-> 1] }

DebridgeAmounts ==
  { Amount("auto", NaN), Amount("0", 0), Amount("0.7", 7), Amount("2.0", 20) }

DebridgeArgs ==
  { [srcChainId |-> c.srcChainId, dstChainId |-> c.dstChainId, srcChainTokenIn |-> t,
     dstChainTokenOut |-> "eth", srcChainTokenInAmount |-> a,
     dstChainTokenOutAmount |-> d, dstChainTokenOutRecipient |-> "0xRecipient",
     wait |-> w] :
      c \in DebridgeChains, t \in {"usdt", "eth", "FOO"}, a \in DebridgeAmounts,
      d \in {"auto", "5"}, w \in BOOLEAN }

(* DebridgeSwapBaseSchema.safeParse(data).success (part_007 42-76): the       *)
(* strings without a default are present                                      *)
DebridgeSwapBaseSchema(data) ==
  {"srcChainTokenIn", "srcChainTokenInAmount", "dstChainTokenOut",
   "dstChainTokenOutRecipient"} \subseteq DOMAIN data

(* DebridgeSwapInput (part_007 81-87): the base schema refined *)
DebridgeSwapInput(data) ==
  /\ DebridgeSwapBaseSchema(data)
  /\ data.srcChainTokenInAmount.text # "auto" \/ data.dstChainTokenOutAmount # "auto"

(* DebridgeSwapAction.argsSchema (part_007 501) *)
DebridgeSwapActionArgsSchema(data) == DebridgeSwapBaseSchema(data)

(* What the chain reads (balanceOf, allowance) answer, in tenths of a token *)
ChainReads ==
  { [threw |-> FALSE, balance |-> 50, allowance |-> 50],
    [threw |-> FALSE, balance |-> 50, allowance |-> 0],
    [threw |-> FALSE, balance |-> 0, allowance |-> 0],
    [threw |-> TRUE, balance |-> 0, allowance |-> 0] }

ApiOutcomes == {"ok", "notOk", "invalid", "fetchThrows", "lowGiveAmountThrown"}

DebridgeEnvs ==
  [walletChain : {43114, 0}, reads : ChainReads, approval : TxOutcomes, api : ApiOutcomes,
   swapTx : TxOutcomes, status : {"confirmed", "failed"}]

(* cowswap_cancel_order (CowSwapAction/signerAdapter.ts) *)

COWSWAP_CHAINS == {1, 100, 43114}

explorerNetwork(chainId) ==
  CASE chainId = 1 -> "mainnet"
    [] chainId = 43114 -> "avalanche"
    [] OTHER -> "gnosis"

(* Mutant: the order is cancelled whatever its status *)
cowSwapCancelOrderWithoutStatusCheck(args, env) ==
  IF env.chainId = 0
  THEN Returned(<<"Error: ", "Unable to determine the current chain ID from the wallet.">>,
                <<>>)
  ELSE IF env.chainId \notin COWSWAP_CHAINS
  THEN Returned(<<"Error: ", "CowSwap is not available on chain ID ", ToString(env.chainId)>>,
                <<>>)
  ELSE IF ~args.wellFormed
  THEN Returned(<<"Error: ", "Invalid Order UID format.">>, <<>>)
  ELSE IF env.sign = "throws"
  THEN Returned(<<"Error cancelling CowSwap order: ", "signing failed">>,
                <<"signOrderCancellation">>)
  ELSE IF env.send = "throws"
  THEN Returned(<<"Error cancelling CowSwap order: ", "submission failed">>,
                <<"signOrderCancellation", "sendSignedOrderCancellations">>)
  ELSE Returned(<<"CowSwap Order Cancelled Successfully!", args.orderUid>>,
                <<"signOrderCancellation", "sendSignedOrderCancellations">>)

(* cowSwapCancelOrder (signerAdapter.ts 358-466) *)
cowSwapCancelOrder(args, env) ==
  IF env.chainId = 0
  THEN Returned(<<"Error: ", "Unable to determine the current chain ID from the wallet.">>,
                <<>>)
  ELSE IF env.chainId \notin COWSWAP_CHAINS
  THEN Returned(<<"Error: ", "CowSwap is not available on chain ID ", ToString(env.chainId)>>,
                <<>>)
  ELSE IF ~args.wellFormed
  THEN Returned(<<"Error: ", "Invalid Order UID format. Order UIDs should be 114 characters long and start with '0x'.">>,
                <<>>)
  ELSE IF env.getOrder.threw
  THEN Returned(<<"Error cancelling CowSwap order: ", "order lookup failed",
                  "The order may not exist, may already be executed/cancelled, or there may be a network issue.">>,
                <<>>)
  ELSE IF env.getOrder.status # "open"
  THEN Returned(<<"Cannot cancel order ", args.orderUid, "Order Status: ",
                  env.getOrder.status,
                  "Reason: Only orders with 'open' status can be cancelled.",
                  "https://explorer.cow.fi/", explorerNetwork(env.chainId), "/orders/",
                  args.orderUid>>,
                <<>>)
  ELSE IF env.sign = "throws"
  THEN Returned(<<"Error cancelling CowSwap order: ", "signing failed",
                  "The order may not exist, may already be executed/cancelled, or there may be a network issue.">>,
                <<"signOrderCancellation">>)
  ELSE IF env.send = "throws"
  THEN Returned(<<"Error cancelling CowSwap order: ", "submission failed",
                  "The order may not exist, may already be executed/cancelled, or there may be a network issue.">>,
                <<"signOrderCancellation", "sendSignedOrderCancellations">>)
  ELSE Returned(<<"CowSwap Order Cancelled Successfully!", args.orderUid>>,
                <<"signOrderCancellation", "sendSignedOrderCancellations">>)

ORDER_UID == "0x1234567890abcdef-114-characters"

CancelArgs ==
  { [orderUid |-> ORDER_UID, wellFormed |-> TRUE],
    [orderUid |-> "1234", wellFormed |-> FALSE] }

OrderStatuses == {"open", "fulfilled", "cancelled", "expired", "presignaturePending"}

GetOrderOutcomes ==
  { [threw |-> FALSE, status |-> st] : st \in OrderStatuses }
    \cup { [threw |-> TRUE, status |-> undefinedStr] }

CancelEnvs ==
  [chainId : {43114, 1, 56, 0}, getOrder : GetOrderOutcomes, sign : {"ok", "throws"},
   send : {"ok", "throws"}]

(* cowswap_execute (CowSwapAction/execute.ts) *)

(* errorMessage.includes("WrongOwner") || includes("recovered signer") ||     *)
(* includes("does not match")                                                 *)
isSmartAccountSignatureIssue(errorMessage) ==
  \/ Contains(errorMessage, "WrongOwner")
  \/ Contains(errorMessage, "recovered signer")
  \/ Contains(errorMessage, "does not match")

manualInstructions(chainId, args) ==
  <<"Smart Account Limitation Detected",
    "Visit: https://swap.cow.fi/#/", explorerNetwork(chainId), "/swap?sell=", args.tokenIn,
    "Consider using our smart_swap action instead:", "Swap ", args.amount>>

(* Mutant: only the WrongOwner text is recognised *)
postSwapOrderResultMatchingWrongOwnerOnly(args, env) ==
  IF ~env.post.threw
  THEN Returned(<<"CowSwap Order Executed Successfully!", "Order UID: ", "0xorder">>,
                <<"postSwapOrder">>)
  ELSE IF Contains(env.post.error, "WrongOwner")
  THEN Returned(manualInstructions(env.chainId, args), <<"postSwapOrder">>)
  ELSE Returned(<<"Error executing CowSwap trade: ">> \o env.post.error,
                <<"postSwapOrder">>)

(* execute.ts 179-272: the order is posted and the outcome turned into text *)
postSwapOrderResult(args, env) ==
  IF ~env.post.threw
  THEN Returned(<<"CowSwap Order Executed Successfully!", "Order UID: ", "0xorder">>,
                <<"postSwapOrder">>)
  ELSE IF isSmartAccountSignatureIssue(env.post.error)
  THEN Returned(manualInstructions(env.chainId, args), <<"postSwapOrder">>)
  ELSE Returned(<<"Error executing CowSwap trade: ">> \o env.post.error \o
                <<"Please ensure you have sufficient balance and try again. If the issue persists, try using smart_swap instead.">>,
                <<"postSwapOrder">>)

(* cowSwapExecute (execute.ts 86-272).  target is what the dispatcher passed *)
(* as first argument: the agent instance or the smart account.                *)
cowSwapExecute(target, args, env) ==
  IF target # "agentkit"
  THEN Returned(<<"Error executing CowSwap trade: ",
                  "agentkit.getSmartAccount is not a function">>, <<>>)
  ELSE IF env.chainId = 0
  THEN Returned(<<"Error: ", "Unable to determine the current chain ID from the wallet.">>,
                <<>>)
  ELSE IF env.chainId \notin COWSWAP_CHAINS
  THEN Returned(<<"Error: ", "CowSwap is not available on chain ID ", ToString(env.chainId)>>,
                <<>>)
  ELSE IF args.form = "neither"
  THEN Returned(<<"Error: ", "You must provide either (tokenInSymbol AND tokenOutSymbol) OR (tokenInAddress AND tokenOutAddress)">>,
                <<>>)
  ELSE IF args.form = "symbols" /\ ~env.resolved
  THEN Returned(<<"Error: ", "Could not resolve token symbols. tokenIn: ", args.tokenIn>>,
                <<>>)
  ELSE IF env.format = "throws"
  THEN Returned(<<"Error: ", "Could not format token amount for ", args.tokenIn>>, <<>>)
  ELSE postSwapOrderResult(args, env)

ExecuteArgs ==
  [form : {"symbols", "addresses", "neither"}, tokenIn : {"USDC"}, amount : {"10"}]

(* What tradingSdk.postSwapOrder does: resolve, or reject with a message *)
PostOutcomes ==
  { [threw |-> FALSE, error |-> <<>>],
    [threw |-> TRUE, error |-> <<"WrongOwner", ": the order owner is not the signer">>],
    [threw |-> TRUE,
     error |-> <<"Invalid signature: ", "recovered signer", " 0xabc ", "does not match",
                 " the from address">>],
    [threw |-> TRUE, error |-> <<"order owner ", "does not match">>],
    [threw |-> TRUE, error |-> <<"InsufficientBalance">>],
    [threw |-> TRUE, error |-> <<"fetch failed">>] }

ExecuteEnvs ==
  [chainId : {43114, 1, 56, 0}, resolved : BOOLEAN, format : {"ok", "throws"},
   post : PostOutcomes]

(* get_balance, local branch (getBalanceAction.ts 166-270) *)

(* Mutant: no try/catch around the provider calls *)
getBalanceLocalWithoutCatch(provider) ==
  IF provider \in {"getAddressThrows", "getBalancesThrows"}
  THEN [kind |-> "threw", result |-> <<"provider unreachable">>, submitted |-> <<>>]
  ELSE Returned(<<"Smart Account: ", "0xLocalSmartAccount", "\n", "All Token Balances:">>, <<>>)

getBalanceLocal(provider) ==
  CASE provider \in {"getAddressThrows", "getBalancesThrows"} ->
         Returned(<<"Error getting balance: ", "provider unreachable">>, <<>>)
    [] provider = "noBalances" ->
         Returned(<<"Error getting balance: ",
                    "No balance information returned from the provider">>, <<>>)
    [] provider = "empty" ->
         Returned(<<"No balances found for the requested tokens">>, <<>>)
    [] provider = "zero" ->
         Returned(<<"Smart Account: ", "0xLocalSmartAccount", "\n", "All Token Balances:",
                    "\n", "No non-zero balances found">>, <<>>)
    [] OTHER ->
         Returned(<<"Smart Account: ", "0xLocalSmartAccount", "\n", "All Token Balances:",
                    "\n", "AVAX: 1.0">>, <<>>)

ProviderOutcomes ==
  {"getAddressThrows", "getBalancesThrows", "noBalances", "empty", "zero", "nonzero"}

(* The calls of debridge_swap that are told apart: an answer nobody asks for *)
(* (the wallet's chain when srcChainId is given, a receipt status when        *)
(* wait is off) is held at one value.                                         *)
DebridgeInputs ==
  { i \in [args : DebridgeArgs, env : DebridgeEnvs] :
      /\ i.args.wait \/ i.env.status = "confirmed"
      /\ i.args.srcChainId = 0 \/ i.env.walletChain = 43114 }

-----------------------------------------------------------------------------
(* The action registry (actions/index.ts, part_011, part_002) *)

(* "public name" of the action classes whose file is not at hand             *)
(* (checkTransactionAction, DebridgeAction, createAndStoreKeyAction, sxt)     *)
ActionNameNotInSource(class) ==
  CASE class = "CheckTransactionAction" -> "check_transaction"
    [] class = "SmartSwapAction" -> "smart_swap"
    [] class = "SmartBridgeAction" -> "smart_bridge"
    [] class = "CreateAndStoreKeyAction" -> "create_and_store_key"
    [] class = "SxtAction" -> "sxt"
    [] OTHER -> undefinedStr

(* Mutant: a class copied from another keeps the name of its original *)
ActionNameCopied(class) ==
  CASE class = "GetBalanceAction" -> "get_balance"
    [] class = "SwapAction" -> "smart_transfer"
    [] class = "CowSwapLimitOrderAction" -> "cowswap_cancel_order"
    [] class = "NetworkAnalysisAction" -> "analyze_token"
    [] OTHER -> ActionNameNotInSource(class)

(* "public name = ..." of each action class *)
ActionName(class) ==
  CASE class = "GetBalanceAction" -> "get_balance"
    [] class = "GetAddressAction" -> "get_address"
    [] class = "GetTokenDetailsAction" -> "get_token_details"
    [] class = "SmartTransferAction" -> "smart_transfer"
    [] class = "SwapAction" -> "swap"
    [] class = "CreateWalletAction" -> "create_wallet"
    [] class = "TokenAnalysisAction" -> "analyze_token"
    [] class = "NetworkAnalysisAction" -> "analyze_network"
    [] class = "DebridgeSwapAction" -> "debridge_swap"
    [] class = "CowSwapSwapAction" -> "cowswap_quote"
    [] class = "CowSwapExecuteAction" -> "cowswap_execute"
    [] class = "CowSwapLimitOrderAction" -> "cowswap_limit_order"
    [] class = "CowSwapOrderQueryAction" -> "cowswap_order_query"
    [] class = "CowSwapCancelOrderAction" -> "cowswap_cancel_order"
    [] OTHER -> ActionNameNotInSource(class)

(* new C(): the instance as far as the registry's users read it; module is   *)
(* the file the class comes from                                              *)
NewAction(class, module) == [class |-> class, module |-> module, name |-> ActionName(class)]

(* The three versions of the list *)
Registries == {"index.ts", "part_011", "part_002"}

(* getAllAgentkitActions (index.ts 75-92, part_011 565-577, part_002 10-20) *)
getAllAgentkitActions(registry) ==
  CASE registry = "index.ts" ->
         << NewAction("GetBalanceAction", "./getBalanceAction"),
            NewAction("GetAddressAction", "./getAddressAction"),
            NewAction("GetTokenDetailsAction", "./getTokenDetailsAction"),
            NewAction("CheckTransactionAction", "./checkTransactionAction"),
            NewAction("SmartTransferAction", "./smartTransferAction"),
            NewAction("SmartSwapAction", "./DebridgeAction"),
            NewAction("SmartBridgeAction", "./DebridgeAction"),
            NewAction("CowSwapSwapAction", "./CowSwapAction"),
            NewAction("CowSwapExecuteAction", "./CowSwapAction"),
            NewAction("CowSwapLimitOrderAction", "./CowSwapAction"),
            NewAction("CowSwapOrderQueryAction", "./CowSwapAction"),
            NewAction("CowSwapCancelOrderAction", "./CowSwapAction"),
            NewAction("CreateAndStoreKeyAction", "./createAndStoreKeyAction"),
            NewAction("SxtAction", "./sxt") >>
    [] registry = "part_011" ->
         << NewAction("GetBalanceAction", "part_011"),
            NewAction("SmartTransferAction", "part_011"),
            NewAction("SwapAction", "part_011"),
            NewAction("CreateWalletAction", "part_011"),
            NewAction("GetTokenDetailsAction", "part_011"),
            NewAction("GetAddressAction", "part_011"),
            NewAction("TokenAnalysisAction", "part_011") >>
    [] registry = "part_002" ->
         << NewAction("CreateWalletAction", "./createWalletAction"),
            NewAction("GetBalanceAction", "./getBalanceAction"),
            NewAction("SmartTransferAction", "./smartTransferAction"),
            NewAction("GetTokenDetailsAction", "./getTokenDetailsAction"),
            NewAction("CheckTransactionAction", "./checkTransactionAction"),
            NewAction("NetworkAnalysisAction", "./codex/networkAnalysis"),
            NewAction("TokenAnalysisAction", "./codex/tokenAnalysis") >>

(* Mutant: the last element with the name *)
findLast(actions, name) ==
  LET hits == {i \in 1..Len(actions) : actions[i].name = name}
  IN IF hits = {} THEN undefined
     ELSE actions[CHOOSE i \in hits : \A j \in hits : i >= j]

(* actions.find(a => a.name === name): the first element with the name, or   *)
(* undefined                                                                  *)
find(actions, name) ==
  LET hits == {i \in 1..Len(actions) : actions[i].name = name}
  IN IF hits = {} THEN undefined
     ELSE actions[CHOOSE i \in hits : \A j \in hits : i <= j]

(* The arrays find is applied to: the three lists, and arrays of up to three *)
(* instances a caller puts together, instances of the two get_address        *)
(* classes among them.                                                        *)
LookupPool ==
  { NewAction("GetAddressAction", "./getAddressAction"),
    NewAction("GetAddressAction", "part_011"),
    NewAction("GetBalanceAction", "./getBalanceAction"),
    NewAction("DebridgeSwapAction", "./swapActionDebridge") }

LookupLists ==
  {getAllAgentkitActions(registry) : registry \in Registries} \cup
  UNION {[1..n -> LookupPool] : n \in 0..3}

LookupNames == {"get_address", "debridge_swap", "get_balance", "no_such_action"}

-----------------------------------------------------------------------------
(* CLI startup (part_000) *)

requiredVars ==
  <<"OPENROUTER_API_KEY", "PRIVATE_KEY", "RPC_URL", "API_KEY", "CHAIN_ID", "CODEX_API_KEY">>

toLowerCase(varName) ==
  CASE varName = "OPENROUTER_API_KEY" -> "openrouter_api_key"
    [] varName = "PRIVATE_KEY" -> "private_key"
    [] varName = "RPC_URL" -> "rpc_url"
    [] varName = "API_KEY" -> "api_key"
    [] varName = "CHAIN_ID" -> "chain_id"
    [] varName = "CODEX_API_KEY" -> "codex_api_key"
    [] OTHER -> varName

(* part_000 14-22: the required variables process.env does not set, in order *)
missingVars(env) == SelectSeq(requiredVars, LAMBDA varName : varName \notin env)

(* validateEnvironment (part_000 13-35) followed by initializeAgent's call   *)
(* of configureWithWallet (part_000 73-79).  env is the set of variables      *)
(* that are set (CHAIN_ID, when set, to 43114); result is what is printed.    *)
validateEnvironment(env) ==
  LET validated(missing) ==
        IF Len(missing) > 0
        THEN [kind |-> "exited",
              result |-> <<"Error: Required environment variables are not set">> \o
                         [i \in 1..Len(missing) |->
                            missing[i] \o "=your_" \o toLowerCase(missing[i]) \o "_here"],
              submitted |-> <<>>]
        ELSE [kind |-> "returned",
              result |-> IF "CHAIN_ID" \notin env
                         THEN <<"Warning: CHAIN_ID not set, defaulting to base-sepolia">>
                         ELSE <<>>,
              submitted |-> <<"configureWithWallet",
                              IF "CHAIN_ID" \in env THEN "43114" ELSE "8453">>]
  IN validated(missingVars(env))

-----------------------------------------------------------------------------
(* analyze_token (part_011 499-557) *)

(* obj.f: undefined when the object has no such property *)
Field(obj, f) == IF f \in DOMAIN obj THEN obj[f] ELSE undefinedStr

(* analyzeToken(args): a function of ONE parameter.  api is what the         *)
(* CoinMarketCap request answers.                                             *)
analyzeToken(args, api) ==
  LET switch(type) ==
        IF type = "listings"
        THEN IF api = "ok"
             THEN Returned(<<"Latest Cryptocurrency Listings:", "Bitcoin (BTC): $1.00">>,
                           <<"/cryptocurrency/listings/latest">>)
             ELSE Returned(<<"Error analyzing token: ", "Request failed with status code 401">>,
                           <<"/cryptocurrency/listings/latest">>)
        ELSE IF type = "quotes"
        THEN IF Falsy(Field(args, "symbol"))
             THEN Returned(<<"Error analyzing token: ", "Symbol is required for quotes">>, <<>>)
             ELSE IF api = "ok"
             THEN Returned(<<Field(args, "symbol"), " Quote:", "Price: $1.00">>,
                           <<"/cryptocurrency/quotes/latest">>)
             ELSE Returned(<<"Error analyzing token: ", "Request failed with status code 401">>,
                           <<"/cryptocurrency/quotes/latest">>)
        ELSE Returned(<<"Unsupported analysis type: ", type>>, <<>>)
  IN switch(Field(args, "type"))

(* action.func(this.smartAccount, args) for TokenAnalysisAction, whose func  *)
(* is analyzeToken: the first actual parameter is bound to the function's    *)
(* only parameter, the second is dropped.                                     *)
TokenAnalysisActionFunc(smartAccount, args, api) == analyzeToken(smartAccount, api)

(* TokenAnalysisInput.parse results (part_011 477-484) *)
TokenAnalysisArgs ==
  { [type |-> "listings", limit |-> 5],
    [type |-> "quotes", limit |-> 10],
    [type |-> "quotes", symbol |-> "BTC", limit |-> 10],
    [type |-> "global", limit |-> 10] }

-----------------------------------------------------------------------------
(* One call of an action's function, observed *)

Observed(name, input, r) ==
  [name |-> name, input |-> input, kind |-> r.kind, result |-> r.result,
   submitted |-> r.submitted]

ActionInit ==
  /\ InitCore
  /\ InitServer
  /\ InitActions

CallSmartDeposit(args, approval, second) ==
  /\ alast.name = "none"
  /\ \E r \in {smartDeposit(args, approval, second)} :
       alast' = Observed("smart_deposit",
                         [args |-> args, approval |-> approval, second |-> second], r)
  /\ UNCHANGED <<coreVars, serverVars, inflight>>

CallSmartWithdraw(args, approval, second) ==
  /\ alast.name = "none"
  /\ \E r \in {smartWithdrawAction(args, approval, second)} :
       alast' = Observed("smart_token_withdrawal",
                         [args |-> args, approval |-> approval, second |-> second], r)
  /\ UNCHANGED <<coreVars, serverVars, inflight>>

CallDebridgeSwap(input) ==
  /\ alast.name = "none"
  /\ \E r \in {debridgeSwap(input.args, input.env)} :
       alast' = Observed("debridge_swap", input, r)
  /\ UNCHANGED <<coreVars, serverVars, inflight>>

CallCowSwapCancelOrder(args, env) ==
  /\ alast.name = "none"
  /\ \E r \in {cowSwapCancelOrder(args, env)} :
       alast' = Observed("cowswap_cancel_order", [args |-> args, env |-> env], r)
  /\ UNCHANGED <<coreVars, serverVars, inflight>>

CallCowSwapExecute(target, args, env) ==
  /\ alast.name = "none"
  /\ \E r \in {cowSwapExecute(target, args, env)} :
       alast' = Observed("cowswap_execute",
                         [target |-> target, args |-> args, env |-> env], r)
  /\ UNCHANGED <<coreVars, serverVars, inflight>>

CallGetBalance(provider) ==
  /\ alast.name = "none"
  /\ \E r \in {getBalanceLocal(provider)} :
       alast' = Observed("get_balance", [provider |-> provider], r)
  /\ UNCHANGED <<coreVars, serverVars, inflight>>

CallGetAllAgentkitActions(registry) ==
  /\ alast.name = "none"
  /\ \E actions \in {getAllAgentkitActions(registry)} :
       alast' = Observed("getAllAgentkitActions", [registry |-> registry],
                         Returned(actions, <<>>))
  /\ UNCHANGED <<coreVars, serverVars, inflight>>

CallFind(actions, name) ==
  /\ alast.name = "none"
  /\ \E found \in {find(actions, name)} :
       alast' = Observed("find", [actions |-> actions, name |-> name],
                         Returned(<<found>>, <<>>))
  /\ UNCHANGED <<coreVars, serverVars, inflight>>

CallValidateEnvironment(env) ==
  /\ alast.name = "none"
  /\ \E r \in {validateEnvironment(env)} :
       alast' = Observed("validateEnvironment", [env |-> env], r)
  /\ UNCHANGED <<coreVars, serverVars, inflight>>

(* analyze_token: called by run on an instance that holds a smart account   *)
(* (via = "run"), or called with its arguments (via = "direct")              *)
CallAnalyzeToken(via, args, api) ==
  /\ alast.name = "none"
  /\ \E c \in {createSmartAccountClient([chainId |-> 43114, signer |-> PK_TEST,
                                         paymasterKey |-> "test-api-key-123"], "ok", 1)} :
     \E r \in {IF via = "run" THEN TokenAnalysisActionFunc(c.client, args, api)
               ELSE analyzeToken(args, api)} :
       alast' = Observed("analyze_token", [via |-> via, args |-> args, api |-> api], r)
  /\ UNCHANGED <<coreVars, serverVars, inflight>>

(* A call is observed from the idle state only; the test stands before the  *)
(* choice of inputs so that no input is drawn once a call has been observed. *)
NoCallObserved == alast.name = "none"

ActionNext ==
  \/ NoCallObserved /\
       \E args \in DepositArgs, approval \in TxOutcomes, second \in TxOutcomes :
         CallSmartDeposit(args, approval, second)
  \/ NoCallObserved /\
       \E args \in WithdrawArgs, approval \in TxOutcomes, second \in TxOutcomes :
         CallSmartWithdraw(args, approval, second)
  \/ NoCallObserved /\ \E input \in DebridgeInputs : CallDebridgeSwap(input)
  \/ NoCallObserved /\
       \E args \in CancelArgs, env \in CancelEnvs : CallCowSwapCancelOrder(args, env)
  \/ NoCallObserved /\
       \E target \in {"agentkit", "smartAccount"}, args \in ExecuteArgs,
          env \in ExecuteEnvs :
         CallCowSwapExecute(target, args, env)
  \/ NoCallObserved /\ \E provider \in ProviderOutcomes : CallGetBalance(provider)
  \/ NoCallObserved /\ \E registry \in Registries : CallGetAllAgentkitActions(registry)
  \/ NoCallObserved /\
       \E actions \in LookupLists, name \in LookupNames : CallFind(actions, name)
  \/ NoCallObserved /\
       \E env \in SUBSET {requiredVars[i] : i \in 1..Len(requiredVars)} :
         CallValidateEnvironment(env)
  \/ NoCallObserved /\
       \E via \in {"run", "direct"}, args \in TokenAnalysisArgs, api \in {"ok", "fails"} :
         CallAnalyzeToken(via, args, api)

ActionSpec == ActionInit /\ [][ActionNext]_vars

-----------------------------------------------------------------------------
(* Properties of the actions' functions (checked under ActionSpec) *)

SourceChainOf(input) ==
  IF input.args.srcChainId # 0 THEN input.args.srcChainId ELSE input.env.walletChain

MinimumOf(input) ==
  TOKEN_MINIMUMS(toUpperCase(input.args.srcChainTokenIn), SourceChainOf(input))

(* a debridge_swap call that passes the checks made on its arguments *)
WellFormedSwap(input) ==
  /\ SourceChainOf(input) # 0
  /\ input.args.dstChainId \in supportedChains
  /\ resolveTokenSymbol(input.args.srcChainTokenIn, SourceChainOf(input))
       # input.args.srcChainTokenIn
  /\ input.args.srcChainTokenInAmount.tenths > 0

BelowMinimum(input) ==
  FloatLess(input.args.srcChainTokenInAmount.tenths, MinimumOf(input).tenths)

\* C15: debridge_swap called with a source amount below the minimum of its
\* token and chain (the TOKEN_MINIMUMS entry, or 1.0) returns an error string
\* that states the minimum, and submits nothing during the call: no approval
\* transaction, no order request, no swap transaction.
C15_BelowMinimumSubmitsNothing ==
  (/\ alast.name = "debridge_swap"
   /\ WellFormedSwap(alast.input)
   /\ ~alast.input.env.reads.threw
   /\ alast.input.env.reads.balance >= alast.input.args.srcChainTokenInAmount.tenths
   /\ BelowMinimum(alast.input))
  => /\ alast.kind = "returned"
     /\ alast.result[1] = "Error: "
     /\ Contains(alast.result, MinimumOf(alast.input).text)
     /\ alast.submitted = <<>>

\* C16: cowswap_cancel_order for an order whose remote status is not "open"
\* neither signs nor submits a cancellation, and once the order has been read
\* it returns a string saying the order cannot be cancelled that includes the
\* status.
C16_OnlyOpenOrdersAreCancelled ==
  (alast.name = "cowswap_cancel_order" /\ alast.input.env.getOrder.status # "open")
  => /\ alast.kind = "returned"
     /\ alast.submitted = <<>>
     /\ (/\ alast.input.env.chainId \in COWSWAP_CHAINS
         /\ alast.input.args.wellFormed
         /\ ~alast.input.env.getOrder.threw)
        => /\ Contains(alast.result, "Cannot cancel order ")
           /\ Contains(alast.result, alast.input.env.getOrder.status)

C16_Witness ==
  /\ alast.name = "cowswap_cancel_order"
  /\ alast.input.env.chainId = 43114
  /\ alast.input.args.wellFormed
  /\ alast.input.env.getOrder.status = "fulfilled"
  /\ alast.input.env.sign = "ok"
  /\ alast.input.env.send = "ok"
  /\ Contains(alast.result, "fulfilled")
  /\ alast.submitted = <<>>

\* C17: in smart_deposit and smart_token_withdrawal the second transaction is
\* submitted only after the approval transaction succeeded; after a failed
\* approval it is never submitted.
C17_SecondOnlyAfterApproval ==
  (alast.name \in {"smart_deposit", "smart_token_withdrawal"} /\ Len(alast.submitted) = 2)
  => alast.input.approval.kind = "success"

(* the first step of the call is the one that failed *)
ApprovalFailed(call) ==
  IF call.name = "debridge_swap"
  THEN call.submitted = <<"approve">> /\ call.input.env.approval.kind # "success"
  ELSE call.name \in {"smart_deposit", "smart_token_withdrawal"}
       /\ call.input.args.encodable /\ call.input.approval.kind # "success"

(* The strings the same action returns, for the same arguments, when the     *)
(* approval succeeded and the second step failed.                             *)
PartialFailureResults(call) ==
  CASE call.name = "smart_deposit" ->
         { smartDeposit(call.input.args, [kind |-> "success", error |-> undefinedStr],
                        second).result :
             second \in {t \in TxOutcomes : t.kind # "success"} }
    [] call.name = "smart_token_withdrawal" ->
         { smartWithdrawAction(call.input.args,
                               [kind |-> "success", error |-> undefinedStr],
                               second).result :
             second \in {t \in TxOutcomes : t.kind # "success"} }
    [] call.name = "debridge_swap" ->
         { debridgeSwap(call.input.args,
                        [call.input.env EXCEPT
                           !.approval = [kind |-> "success", error |-> undefinedStr],
                           !.api = "ok", !.swapTx = second]).result :
             second \in {t \in TxOutcomes : t.kind # "success"} }
    [] OTHER -> {}

\* C18: for smart_deposit, smart_token_withdrawal and debridge_swap the string
\* returned when the approval failed differs from every string returned when
\* the approval succeeded and the second step failed.
C18_PartialFailureIsDistinct ==
  ApprovalFailed(alast) => alast.result \notin PartialFailureResults(alast)

(* The expected failures of a call, told from its inputs and from how far    *)
(* it got (the requests it submitted).                                        *)
LastSubmitted(call) ==
  IF call.submitted = <<>> THEN "none" ELSE call.submitted[Len(call.submitted)]

InsufficientBalance(call) ==
  /\ call.name = "debridge_swap"
  /\ WellFormedSwap(call.input)
  /\ toUpperCase(call.input.args.srcChainTokenIn) # "ETH"
  /\ ~call.input.env.reads.threw
  /\ call.input.env.reads.balance < call.input.args.srcChainTokenInAmount.tenths

UnsupportedChain(call) ==
  \/ /\ call.name = "debridge_swap"
     /\ SourceChainOf(call.input) # 0
     /\ call.input.args.dstChainId \notin supportedChains
  \/ /\ call.name = "cowswap_cancel_order"
     /\ call.input.env.chainId \notin COWSWAP_CHAINS \cup {0}
  \/ /\ call.name = "cowswap_execute"
     /\ call.input.target = "agentkit"
     /\ call.input.env.chainId \notin COWSWAP_CHAINS \cup {0}

MalformedResponse(call) ==
  /\ call.name = "debridge_swap"
  /\ LastSubmitted(call) = "orderRequest"
  /\ call.input.env.api = "invalid"

UnreachableService(call) ==
  \/ /\ call.name = "debridge_swap"
     /\ LastSubmitted(call) = "orderRequest"
     /\ call.input.env.api = "fetchThrows"
  \/ /\ call.name = "get_balance"
     /\ call.input.provider \in {"getAddressThrows", "getBalancesThrows", "noBalances"}
  \/ /\ call.name = "cowswap_cancel_order"
     /\ call.input.env.chainId \in COWSWAP_CHAINS
     /\ call.input.args.wellFormed
     /\ call.input.env.getOrder.threw

FailedTransaction(call) ==
  \/ /\ call.name \in {"smart_deposit", "smart_token_withdrawal"}
     /\ call.input.args.encodable
     /\ call.input.approval.kind # "success" \/ call.input.second.kind # "success"
  \/ /\ call.name = "debridge_swap"
     /\ \/ LastSubmitted(call) = "approve" /\ call.input.env.approval.kind # "success"
        \/ LastSubmitted(call) = "swap" /\ call.input.env.swapTx.kind # "success"

ExpectedFailure(call) ==
  \/ InsufficientBalance(call)
  \/ UnsupportedChain(call)
  \/ MalformedResponse(call)
  \/ UnreachableService(call)
  \/ FailedTransaction(call)

C20_SignatureRejectionGetsGuidance ==
  (/\ alast.name = "cowswap_execute"
   /\ LastSubmitted(alast) = "postSwapOrder"
   /\ alast.input.env.post.threw)
  => /\ alast.kind = "returned"
     /\ IF \E text \in {"WrongOwner", "recovered signer", "does not match"} :
             Contains(alast.input.env.post.error, text)
        THEN /\ Contains(alast.result, "Visit: https://swap.cow.fi/#/")
             /\ Contains(alast.result, "Consider using our smart_swap action instead:")
             /\ alast.result[1] # "Error executing CowSwap trade: "
        ELSE /\ alast.result[1] = "Error executing CowSwap trade: "
             /\ ~Contains(alast.result, "Visit: https://swap.cow.fi/#/")

C20_Witness ==
  /\ alast.name = "cowswap_execute"
  /\ alast.input.env.chainId = 43114
  /\ alast.submitted = <<"postSwapOrder">>
  /\ alast.input.env.post.threw
  /\ Contains(alast.input.env.post.error, "recovered signer")
  /\ ~Contains(alast.input.env.post.error, "WrongOwner")
  /\ alast.result = manualInstructions(43114, alast.input.args)


-----------------------------------------------------------------------------
(* Properties of the registry (checked under ActionSpec) *)

HitsOf(call) ==
  {i \in 1..Len(call.input.actions) : call.input.actions[i].name = call.input.name}

-----------------------------------------------------------------------------
(* Properties of the CLI startup (checked under ActionSpec) *)

\* C23: at CLI startup, when CHAIN_ID is the only required environment
\* variable that is unset, validateEnvironment prints a warning and startup
\* continues with a default chain; the process does not exit.
C23_MissingChainIdIsAWarning ==
  (/\ alast.name = "validateEnvironment"
   /\ {requiredVars[i] : i \in 1..Len(requiredVars)} \ alast.input.env = {"CHAIN_ID"})
  => /\ alast.kind = "returned"
     /\ \E i \in 1..Len(alast.result) :
          alast.result[i] = "Warning: CHAIN_ID not set, defaulting to base-sepolia"
     /\ alast.submitted = <<"configureWithWallet", "8453">>

-----------------------------------------------------------------------------
(* Properties of the argument passing (checked under ActionSpec) *)

\* C24: an action's function invoked through Agentkit.run(action, args) reads
\* its arguments from the validated args value given to run, never from the
\* account handle; in particular analyze_token run with args of type
\* "listings" executes the listings branch and does not answer "Unsupported
\* analysis type".
C24_ArgumentsComeFromArgs ==
  (alast.name = "analyze_token" /\ alast.input.via = "run")
  => /\ alast.result = analyzeToken(alast.input.args, alast.input.api).result
     /\ alast.input.args.type = "listings"
          => /\ alast.submitted = <<"/cryptocurrency/listings/latest">>
             /\ ~Contains(alast.result, "Unsupported analysis type: ")

\* C25: debridge_swap rejects an input in which both srcChainTokenInAmount
\* and dstChainTokenOutAmount are "auto": parsing that input with the
\* action's argsSchema fails, and if the function is reached anyway it
\* submits no approval transaction, no DeBridge order request and no swap
\* transaction.
C25_BothAutoIsRejected ==
  (/\ alast.name = "debridge_swap"
   /\ alast.input.args.srcChainTokenInAmount.text = "auto"
   /\ alast.input.args.dstChainTokenOutAmount = "auto")
  => /\ ~DebridgeSwapActionArgsSchema(alast.input.args)
     /\ alast.submitted = <<>>

-----------------------------------------------------------------------------
(* Further properties of the dispatcher and the credential context (checked  *)
(* under Spec)                                                                *)

\* C26: configureAgentkit with a non-empty API key that was never registered
\* succeeds (the smart-account SDK answering): the auth service generates a
\* wallet and registers it under that key, so every later verification of the
\* same key returns the same private key and address until addApiKey or
\* removeApiKey changes the entry.
C26_UnknownKeyGetsAStableWallet ==
  /\ [][(/\ last'.op = "configureAgentkit"
         /\ last'.config.apiKey \in ApiKeyNames
         /\ validApiKeys[last'.config.apiKey] = undefined
         /\ last'.sdk = "ok")
        => /\ last'.kind = "returned"
           /\ agentkit'.constructed
           /\ agentkit'.apiKey = last'.config.apiKey
           /\ validApiKeys'[last'.config.apiKey] # undefined
           /\ validApiKeys'[last'.config.apiKey].privateKey \in GeneratedKeys
           /\ agentkit'.smartAccount # undefined
           /\ agentkit'.smartAccount.privateKey
                = validApiKeys'[last'.config.apiKey].privateKey]_vars
  /\ [][\A k \in ApiKeyNames :
          (validApiKeys[k] # undefined /\ last'.op \notin {"addApiKey", "removeApiKey"})
          => validApiKeys'[k] = validApiKeys[k]]_vars
  /\ []((/\ ApiKeyInstance
         /\ last.op \in InstanceOps
         /\ ~last.revalFailed)
        => /\ validApiKeys[agentkit.apiKey] # undefined
           /\ agentkit.smartAccount.privateKey = validApiKeys[agentkit.apiKey].privateKey
           /\ last.op = "getAddress"
                => last.value = privateKeyToAddress(validApiKeys[agentkit.apiKey].privateKey))

C26_Witness ==
  /\ ApiKeyInstance
  /\ agentkit.apiKey = "custom-test-key"
  /\ last.op = "getAddress"
  /\ last.kind = "returned"
  /\ calls = 2
  /\ validApiKeys["custom-test-key"].privateKey = "0xgenerated-2"
  /\ last.value = privateKeyToAddress("0xgenerated-2")

\* C27: an action that declares smartAccountRequired = false is executed by
\* Agentkit.run even when the instance holds no smart account; the "A Smart
\* Account is required" refusal is returned only for actions that declare
\* smartAccountRequired = true.
C27_RefusalOnlyWhenRequired ==
  /\ (/\ last.op = "run"
      /\ last.before.smartAccount = undefined
      /\ Falsy(last.before.apiKey)
      /\ ~last.action.smartAccountRequired)
     => /\ last.invoked
        /\ ~Contains(last.value, "A Smart Account is required")
  /\ (last.op = "run" /\ Contains(last.value, "A Smart Account is required"))
     => last.action.smartAccountRequired

-----------------------------------------------------------------------------
(* Further properties of server-wallet mode (checked under ServerSpec) *)

SwitchReported(result) == Contains(result, "Successfully switched from wallet index ")

\* C28: after select_server_wallet reports success, the selected wallet index
\* is the accountIndex of a wallet that exists on the server, so a
\* get_address executed next never answers "No wallet found at index" (the
\* wallet service only adds wallets, so a wallet that existed when it was
\* selected exists when the address is read).
C28_SelectedWalletExists ==
  /\ (slast.op = "select_server_wallet" /\ SwitchReported(slast.result))
     => \E i \in 1..Len(wallets) : wallets[i].accountIndex = server.selectedWalletIndex
  /\ (/\ slast.op = "get_address"
      /\ slast.target = "agentkit"
      /\ slast.previous.op = "select_server_wallet"
      /\ SwitchReported(slast.previous.result))
     => ~Contains(slast.result, "No wallet found at index ")

\* C29: select_server_wallet changes nothing but the selected wallet index: a
\* successful call leaves the API key and server URL unchanged, and a call on
\* an instance that is not in server mode, or on an object without an
\* isServerMode method, returns a string starting with "Error:" and leaves
\* the selected wallet index unchanged.
C29_SelectChangesOnlyTheIndex ==
  [][(slast'.op = "select_server_wallet" /\ slast' # slast)
     => /\ server' = [server EXCEPT !.selectedWalletIndex = server'.selectedWalletIndex]
        /\ wallets' = wallets
        /\ SwitchReported(slast'.result)
             => /\ server'.apiKey = server.apiKey
                /\ server'.serverUrl = server.serverUrl
                /\ server'.selectedWalletIndex = slast'.walletIndex
        /\ (~server.serverMode \/ slast'.target # "agentkit")
             => /\ slast'.result[1] = "Error: "
                /\ ~SwitchReported(slast'.result)
                /\ server'.selectedWalletIndex = server.selectedWalletIndex]_vars

C29_Witness ==
  /\ slast.op = "select_server_wallet"
  /\ slast.target = "smartAccount"
  /\ slast.walletIndex = 1
  /\ slast.result = <<"Error: ", "Invalid agentkit instance provided.">>
  /\ slast.previous.op = "select_server_wallet"
  /\ slast.previous.walletIndex = 2
  /\ SwitchReported(slast.previous.result)
  /\ server.selectedWalletIndex = 2
  /\ server.apiKey = "server-api-key"
  /\ server.serverUrl = "https://wallets.example"

-----------------------------------------------------------------------------
(* Two run calls in flight on one API-key instance (agentkit.ts 177-201,     *)
(* 238-270).  A call is suspended at each await; between two awaits it runs  *)
(* without interruption.                                                      *)

(* An instance returned by configureAgentkit("custom-test-key") *)
RaceInit ==
  /\ variant = "apikey"
  /\ TESTNET_SUPPORT = FALSE
  /\ \E r \in {configureAgentkit("custom-test-key", InitialApiKeys, "0xgenerated-1", "ok", 1)} :
       /\ agentkit = r.self
       /\ validApiKeys = r.db
  /\ calls = 0
  /\ revalidations = 0
  /\ clients = 1
  /\ failedBefore = FALSE
  /\ last = IdleLast
  /\ InitServer
  /\ InitActions

(* run is called: this.apiKey is set, so revalidateAndReconfigure and        *)
(* verifyApiKeyInternal are entered and verifyApiKey, which has no await of  *)
(* its own, reads (and for an unknown key writes) the key table; the call is *)
(* then suspended at "await verifyApiKey(apiKey)".                            *)
RunBegin(i, generatedKey) ==
  /\ inflight[i].pc = "idle"
  /\ \E v \in {verifyApiKeyInternal(agentkit.apiKey, validApiKeys, generatedKey)} :
       /\ validApiKeys' = v.db
       /\ inflight' = [inflight EXCEPT ![i].pc = "verifying",
                                       ![i].verified = [threw |-> v.threw, data |-> v.data]]
  /\ calls' = calls + 1
  /\ revalidations' = revalidations + 1
  /\ UNCHANGED <<variant, TESTNET_SUPPORT, agentkit, clients, failedBefore, last>>
  /\ UNCHANGED <<serverVars, alast>>

(* the call resumes with the verification's answer: a failure is returned by *)
(* run as text; otherwise the signer is derived and createSmartAccountClient *)
(* is called, and the call is suspended at its await                         *)
RunVerified(i) ==
  /\ inflight[i].pc = "verifying"
  /\ inflight' =
       IF inflight[i].verified.threw \/ ~ValidPrivateKey(inflight[i].verified.data.privateKey)
       THEN [inflight EXCEPT ![i].pc = "done", ![i].outcome = "validationFailed"]
       ELSE [inflight EXCEPT ![i].pc = "creating"]
  /\ UNCHANGED <<coreVars, serverVars, alast>>

(* createSmartAccountClient settles: "this.smartAccount = await ..." writes  *)
(* the new handle to the instance and revalidateAndReconfigure returns; the  *)
(* call is suspended at run's "await this.revalidateAndReconfigure()"        *)
ClientResolved(i, sdk) ==
  /\ inflight[i].pc = "creating"
  /\ \E c \in {createSmartAccountClient(
                 [chainId |-> inflight[i].verified.data.chainId,
                  signer |-> inflight[i].verified.data.privateKey,
                  paymasterKey |-> agentkit.apiKey], sdk, clients + 1)} :
       IF c.threw
       THEN /\ inflight' = [inflight EXCEPT ![i].pc = "done",
                                            ![i].outcome = "validationFailed"]
            /\ UNCHANGED <<agentkit, clients>>
       ELSE /\ agentkit' = [agentkit EXCEPT !.smartAccount = c.client]
            /\ clients' = clients + 1
            /\ inflight' = [inflight EXCEPT ![i].pc = "reconfigured", ![i].built = c.client]
  /\ UNCHANGED <<variant, TESTNET_SUPPORT, validApiKeys, calls, revalidations, failedBefore,
                 last>>
  /\ UNCHANGED <<serverVars, alast>>

(* run resumes: it reads this.smartAccount and calls action.func with it *)
RunResume(i) ==
  /\ inflight[i].pc = "reconfigured"
  /\ inflight' =
       IF agentkit.smartAccount = undefined
       THEN [inflight EXCEPT ![i].pc = "done", ![i].outcome = "refused"]
       ELSE [inflight EXCEPT ![i].pc = "done", ![i].outcome = "invoked",
                             ![i].used = agentkit.smartAccount]
  /\ UNCHANGED <<coreVars, serverVars, alast>>

(* addApiKey replaces the entry of the instance's key while calls are in     *)
(* flight                                                                     *)
RotateKey(walletData) ==
  /\ \E i \in Callers : inflight[i].pc # "idle"
  /\ validApiKeys' = addApiKey(validApiKeys, agentkit.apiKey, walletData)
  /\ UNCHANGED <<variant, TESTNET_SUPPORT, agentkit, calls, revalidations, clients,
                 failedBefore, last>>
  /\ UNCHANGED <<serverVars, actionVars>>

RaceNext ==
  \/ \E i \in Callers, g \in GeneratedKeys : RunBegin(i, g)
  \/ \E i \in Callers : RunVerified(i)
  \/ \E i \in Callers, sdk \in SdkOutcomes : ClientResolved(i, sdk)
  \/ \E i \in Callers : RunResume(i)
  \/ \E walletData \in WalletDataInputs : RotateKey(walletData)

RaceSpec == RaceInit /\ [][RaceNext]_vars

=============================================================================
